---- MODULE Spec2Model ----
(***************************************************************************)
(* Model of the SAM.gov browser-automation session orchestrator of         *)
(* src/app.py: the persistent Edge session (_get_persistent_edge_driver,   *)
(* _cleanup_persistent_session), one automation run                        *)
(* (_sam_download_with_persistent_session, called by sam_start), the login *)
(* gate (_ensure_sam_login), the ordered selector chains and the           *)
(* filesystem download watchers.                                           *)
(***************************************************************************)
EXTENDS Integers, Sequences, FiniteSets, TLC

\* ---------------------------------------------------------------------
\* Program constants
\* ---------------------------------------------------------------------
session_timeout == 3600
max_session_age == 14400

\* ---------------------------------------------------------------------
\* Bounds of the model
\* ---------------------------------------------------------------------
\* number of browser processes that can ever be started in one behaviour
MaxProcs == 2

\* the instants (seconds) at which the serialized callers act
Times == {0, 3500, 3700, 14500}

\* download directory requested by the serialized callers
Dirs == {"dirA"}

NoDriver == 0
NoTime == -1
Pids == 1..MaxProcs

VARIABLES
    persistent_driver,    \* _persistent_driver: NoDriver or the pid it controls
    session_start_time,   \* _session_start_time: NoTime or a time
    procs,                \* browser processes: pid -> state
    download_path,        \* directory the browser currently downloads to
    clock,                \* time.time()
    last_activity,        \* time of the last acquire that returned a handle
    lastOp,               \* what the last operation did
    page,                 \* what the portal showed when the last operation was a run
    result                \* caller-facing result when the last operation was a sam_start

VARIABLES
    lg_pc,                \* position in _ensure_sam_login
    login_needed,         \* login_needed
    login_complete,       \* login_complete
    lg_elapsed,           \* time.time() - start_wait
    lg_dom,               \* the page as the last indicator check saw it
    lg_outcome,           \* how _ensure_sam_login ended
    lg_first              \* elapsed time of the first poll whose page showed the login done

loginVars == <<lg_pc, login_needed, login_complete, lg_elapsed, lg_dom, lg_outcome, lg_first>>

VARIABLES
    fs,                   \* the download directory: its files, oldest modification first
    dl,                   \* the browser's downloads: "pending", "temp" or "done"
    w_pc,                 \* position in the two download waits
    w_elapsed,            \* time.time() - start of the current wait
    before,               \* the snapshot `before` of _download_attachments_on_page
    main_pdf,             \* main_pdf
    att_result,           \* what _download_attachments_on_page returned
    w_temp_at_report,     \* a temporary file was in the directory when a wait reported
    w_after,              \* the non-temporary files in the directory when the wait returned
    dl_all                \* dl_all: the Download All control was found (directly or by the menu)

watchVars == <<fs, dl, w_pc, w_elapsed, before, main_pdf, att_result, w_temp_at_report, w_after,
               dl_all>>

VARIABLES
    rs_cands,             \* a candidate list as the page answers it
    rs_pc,                \* "input" before the resolution, "resolved" after it
    rs_choice,            \* the element the resolution loop chose
    rs_login_needed       \* login_needed as the indicator loop computes it

resolveVars == <<rs_cands, rs_pc, rs_choice, rs_login_needed>>

VARIABLES
    sn_name,              \* the argument `name` of _sanitize_folder_name
    sn_pc,                \* "input" before the call, "returned" or "created" after it
    sn_out,               \* what _sanitize_folder_name returned
    sn_folder             \* the directory _create_contract_folder made and returned

sanitizeVars == <<sn_name, sn_pc, sn_out, sn_folder>>

VARIABLES
    ex_page,              \* the opportunity page as one harvest finds it
    ex_pc,                \* "input" before the call, "returned" after it
    ex_result             \* what _extract_links_and_attachments_info gave its caller

extractVars == <<ex_page, ex_pc, ex_result>>

VARIABLES
    th_pc,                \* position of each request thread in its run
    disk,                 \* the files the browser wrote, in the order of their writing
    th_before,            \* `before` of each thread's _download_attachments_on_page
    th_main_pdf,          \* main_pdf of each thread
    th_attachments,       \* downloaded_attachments of each thread
    th_polls              \* polls each thread made in its current wait

threadVars == <<th_pc, disk, th_before, th_main_pdf, th_attachments, th_polls>>

sessionVars == <<persistent_driver, session_start_time, procs, download_path,
                 clock, last_activity, lastOp, page, result>>

\* what the actions of one part leave alone
outsideSession == <<loginVars, watchVars, resolveVars, sanitizeVars, extractVars, threadVars>>
outsideLogin == <<watchVars, resolveVars, sanitizeVars, extractVars, threadVars>>
outsideWatch == <<sessionVars, loginVars, resolveVars, sanitizeVars, extractVars, threadVars>>
outsideResolve == <<sessionVars, loginVars, watchVars, sanitizeVars, extractVars, threadVars>>
outsideSanitize == <<sessionVars, loginVars, watchVars, resolveVars, extractVars, threadVars>>
outsideExtract == <<sessionVars, loginVars, watchVars, resolveVars, sanitizeVars,
                   threadVars>>
outsideThreads == <<loginVars, watchVars, resolveVars, sanitizeVars, extractVars>>

\* ---------------------------------------------------------------------
\* Browser processes (the external collaborator behind the WebDriver handle)
\* ---------------------------------------------------------------------
ProcStates == {"unstarted", "responsive", "unresponsive", "dead"}

\* processes that were started and are neither quit nor dead
Running(pr) == {p \in Pids : pr[p] \in {"responsive", "unresponsive"}}

\* the liveness probe `_persistent_driver.current_url` returns (no exception)
ProbeOk(pr, drv) == pr[drv] = "responsive"

\* driver.quit(): the process is gone afterwards
Quit(pr, drv) == [pr EXCEPT ![drv] = "dead"]

\* driver.quit() raises when the process no longer answers; the callers swallow it
QuitRaises(pr, drv) == pr[drv] # "responsive"

\* the pid webdriver.Edge(...) gives to the process it starts
CanStart(pr) == \E p \in Pids : pr[p] = "unstarted"

FreshPid(pr) ==
    IF CanStart(pr)
    THEN CHOOSE p \in Pids : pr[p] = "unstarted" /\ \A q \in Pids : pr[q] = "unstarted" => p <= q
    ELSE NoDriver

\* ---------------------------------------------------------------------
\* _get_persistent_edge_driver
\* ---------------------------------------------------------------------
\* a plausible slip: the time checks are left out
needs_new_session_notime(drv, st, now) ==
    drv = NoDriver \/ st = NoTime

needs_new_session(drv, st, now) ==
    \/ drv = NoDriver
    \/ st = NoTime
    \/ (now - st) > session_timeout
    \/ (now - st) > max_session_age

\* a plausible slip: the handle is not cleared before the browser is started,
\* so a failed start leaves the old handle in place
GetPersistentEdgeDriver_keephandle(drv, st, pr, path, now, dir, create, navOk, rebindOk) ==
    LET need0 == needs_new_session(drv, st, now)
        probed == drv # NoDriver /\ ~need0
    IN  IF probed /\ ProbeOk(pr, drv)
        THEN [driver |-> drv, start |-> st, procs |-> pr,
              path |-> IF rebindOk THEN dir ELSE path,
              ret |-> "handle", reused |-> TRUE, probed |-> TRUE,
              started |-> NoDriver, quit |-> NoDriver, quitRaised |-> FALSE,
              runQuit |-> NoDriver, asked |-> dir]
        ELSE LET drv1 == IF probed THEN NoDriver ELSE drv
                 pr1 == IF drv1 # NoDriver THEN Quit(pr, drv1) ELSE pr
                 qr == drv1 # NoDriver /\ QuitRaises(pr, drv1)
                 new == FreshPid(pr)
             IN  IF create = "fail"
                 THEN [driver |-> drv, start |-> st, procs |-> pr1,
                       path |-> path,
                       ret |-> "raise", reused |-> FALSE, probed |-> probed,
                       started |-> NoDriver, quit |-> drv1, quitRaised |-> qr,
                       runQuit |-> NoDriver, asked |-> dir]
                 ELSE [driver |-> new, start |-> now,
                       procs |-> [pr1 EXCEPT ![new] = "responsive"],
                       path |-> dir,
                       ret |-> IF navOk THEN "handle" ELSE "raise",
                       reused |-> FALSE, probed |-> probed,
                       started |-> new, quit |-> drv1, quitRaised |-> qr,
                       runQuit |-> NoDriver, asked |-> dir]

\* a plausible slip: no try/except around the rebind, so its exception
\* reaches the handler of the probe
ReuseReturns_rebindunguarded(pr, drv, rebindOk) == ProbeOk(pr, drv) /\ rebindOk

\* the try block of the reuse branch reaches `return _persistent_driver`:
\* current_url answers; an exception of the rebind is swallowed by its own
\* try/except
ReuseReturns(pr, drv, rebindOk) == ProbeOk(pr, drv)

\* Outcome of one call. create: "primary" (webdriver.Edge(options) works),
\* "service" (only the EdgeService fallback works), "fail" (both raise).
\* navOk: the initial driver.get("https://sam.gov/") returns.
\* rebindOk: the Page.setDownloadBehavior command on reuse returns.
GetPersistentEdgeDriver(drv, st, pr, path, now, dir, create, navOk, rebindOk) ==
    LET need0 == needs_new_session(drv, st, now)
        probed == drv # NoDriver /\ ~need0
    IN  IF probed /\ ReuseReturns(pr, drv, rebindOk)
        THEN [driver |-> drv, start |-> st, procs |-> pr,
              path |-> IF rebindOk THEN dir ELSE path,
              ret |-> "handle", reused |-> TRUE, probed |-> TRUE,
              started |-> NoDriver, quit |-> NoDriver, quitRaised |-> FALSE,
              runQuit |-> NoDriver, asked |-> dir]
        ELSE LET drv1 == IF probed THEN NoDriver ELSE drv
                 pr1 == IF drv1 # NoDriver THEN Quit(pr, drv1) ELSE pr
                 qr == drv1 # NoDriver /\ QuitRaises(pr, drv1)
                 new == FreshPid(pr)
             IN  IF create = "fail"
                 THEN [driver |-> NoDriver, start |-> st, procs |-> pr1,
                       path |-> path,
                       ret |-> "raise", reused |-> FALSE, probed |-> probed,
                       started |-> NoDriver, quit |-> drv1, quitRaised |-> qr,
                       runQuit |-> NoDriver, asked |-> dir]
                 ELSE [driver |-> new, start |-> now,
                       procs |-> [pr1 EXCEPT ![new] = "responsive"],
                       path |-> dir,
                       ret |-> IF navOk THEN "handle" ELSE "raise",
                       reused |-> FALSE, probed |-> probed,
                       started |-> new, quit |-> drv1, quitRaised |-> qr,
                       runQuit |-> NoDriver, asked |-> dir]

\* what the browser and its driver do during one acquire
AcquireEnvs ==
    {[create |-> "primary", navOk |-> TRUE, rebindOk |-> TRUE],
     [create |-> "service", navOk |-> TRUE, rebindOk |-> TRUE],
     [create |-> "fail", navOk |-> TRUE, rebindOk |-> TRUE],
     [create |-> "primary", navOk |-> FALSE, rebindOk |-> TRUE],
     [create |-> "primary", navOk |-> TRUE, rebindOk |-> FALSE]}

NoResult == [ok |-> FALSE, kind |-> "none", message |-> "none", folder |-> "none",
             pdf |-> "none",
             attachments |-> {}, links_info |-> <<>>, attachments_info |-> <<>>,
             steps |-> <<>>]

\* the record kept of the last operation: what it found and what it did
OpRecord(op, a, runOutcome) ==
    [op |-> op, clockAt |-> clock,
     driverBefore |-> persistent_driver,
     probeOk |-> persistent_driver # NoDriver /\ ProbeOk(procs, persistent_driver),
     age |-> IF session_start_time = NoTime THEN NoTime ELSE clock - session_start_time,
     idle |-> IF last_activity = NoTime THEN NoTime ELSE clock - last_activity,
     ret |-> a.ret, reused |-> a.reused, probed |-> a.probed,
     started |-> a.started, quit |-> a.quit, quitRaised |-> a.quitRaised,
     driverAcquired |-> a.driver, startAcquired |-> a.start,
     run |-> runOutcome, runQuit |-> a.runQuit, asked |-> a.asked,
     prevRunFailed |-> lastOp.op = "run" /\ lastOp.ret = "handle" /\ lastOp.run = "failed",
     prevStartFailed |-> /\ lastOp.op \in {"acquire", "run"}
                         /\ lastOp.ret = "raise"
                         /\ lastOp.started = NoDriver]

NoAcquire == [ret |-> "none", reused |-> FALSE, probed |-> FALSE, started |-> NoDriver,
              quit |-> NoDriver, quitRaised |-> FALSE, driver |-> NoDriver, start |-> NoTime,
              runQuit |-> NoDriver, asked |-> "none"]

\* the acquire will take the reuse branch: only the rebind outcome matters then,
\* and only the creation outcome otherwise
WillReuse ==
    /\ persistent_driver # NoDriver
    /\ ~needs_new_session(persistent_driver, session_start_time, clock)
    /\ ProbeOk(procs, persistent_driver)

EnvsNow ==
    {e \in AcquireEnvs : IF WillReuse THEN e.create = "primary" /\ e.navOk ELSE e.rebindOk}

NoOp ==
    [op |-> "none", clockAt |-> 0, driverBefore |-> NoDriver, probeOk |-> FALSE, age |-> NoTime, idle |-> NoTime,
     ret |-> "none", reused |-> FALSE, probed |-> FALSE,
     started |-> NoDriver, quit |-> NoDriver, quitRaised |-> FALSE,
     driverAcquired |-> NoDriver, startAcquired |-> NoTime,
     run |-> "none", runQuit |-> NoDriver, asked |-> "none", prevRunFailed |-> FALSE,
     prevStartFailed |-> FALSE]

\* ---------------------------------------------------------------------
\* One automation run: _sam_download_with_persistent_session and sam_start
\* ---------------------------------------------------------------------
\* What the portal shows to one run. exc: the step at which an unexpected
\* WebDriver exception is raised ("none" when there is none).
PageSpace ==
    [exc : {"none", "login", "search", "open"},
     search : {"css", "scan", "none"},
     links : {"opp", "opportunity", "none"},
     tab : BOOLEAN, foundLinks : {<<>>, <<"http://x">>}, foundAtts : {<<>>, <<"f.pdf">>},
     more : BOOLEAN, download : BOOLEAN, pdfopt : BOOLEAN, final : BOOLEAN,
     pdfWait : {"SAM_id.pdf", "none"},
     dlAll : BOOLEAN, menuDlAll : BOOLEAN, attWait : {{}, {"a1.docx"}}]

GoodPage ==
    [exc |-> "none", search |-> "css", links |-> "opp",
     tab |-> TRUE, foundLinks |-> <<"http://x">>, foundAtts |-> <<"f.pdf">>,
     more |-> TRUE, download |-> TRUE, pdfopt |-> TRUE, final |-> TRUE,
     pdfWait |-> "SAM_id.pdf",
     dlAll |-> TRUE, menuDlAll |-> FALSE, attWait |-> {"a1.docx"}]

\* the opportunity page is never shown when the run stops before it; such
\* pages differ only in where the run stops
StopsEarly(pg) == pg.exc # "none" \/ pg.search = "none" \/ pg.links = "none"

SamePageContent(p, q) ==
    /\ p.tab = q.tab /\ p.foundLinks = q.foundLinks /\ p.foundAtts = q.foundAtts
    /\ p.more = q.more /\ p.download = q.download /\ p.pdfopt = q.pdfopt
    /\ p.final = q.final /\ p.pdfWait = q.pdfWait
    /\ p.dlAll = q.dlAll /\ p.menuDlAll = q.menuDlAll /\ p.attWait = q.attWait

AllPages == {pg \in PageSpace : StopsEarly(pg) => SamePageContent(pg, GoodPage)}

\* no run
NoPage == [GoodPage EXCEPT !.exc = "norun"]

\* the pages used where the session, not the page, is under study
RunPages ==
    {GoodPage,
     [GoodPage EXCEPT !.exc = "login"],
     [GoodPage EXCEPT !.search = "none"],
     [GoodPage EXCEPT !.links = "none"],
     [GoodPage EXCEPT !.exc = "open"]}

\* _extract_links_and_attachments_info: no tab, no harvest; never raises
\* a plausible slip: the harvest goes on when no tab was found
ExtractLinksAndAttachmentsInfo_notab(pg) ==
    [links |-> pg.foundLinks, attachments |-> pg.foundAtts]

ExtractLinksAndAttachmentsInfo(pg) ==
    IF ~pg.tab
    THEN [links |-> <<>>, attachments |-> <<>>]
    ELSE [links |-> pg.foundLinks, attachments |-> pg.foundAtts]

\* the primary-document menu chain and its wait loop (main_pdf)
PrimaryDocument(pg) ==
    IF pg.more
    THEN IF pg.download
         THEN IF pg.final THEN pg.pdfWait ELSE "none"
         ELSE "none"
    ELSE "none"

\* _download_attachments_on_page: the RuntimeError("Download All button not
\* found.") is caught by the function's own handler, which returns []
DownloadAttachmentsOnPage(pg) ==
    IF pg.dlAll \/ pg.menuDlAll THEN pg.attWait ELSE {}

\* a plausible slip: the handler tears the session down
OnAutomationError_quit(drv, st, pr) ==
    [driver |-> NoDriver, start |-> NoTime, procs |-> Quit(pr, drv), quit |-> drv]

\* the handler of _sam_download_with_persistent_session: the error is
\* re-raised and the session is left as it is
OnAutomationError(drv, st, pr) ==
    [driver |-> drv, start |-> st, procs |-> pr, quit |-> NoDriver]

Raised(msg, steps) ==
    [kind |-> "raise", message |-> msg, pdf |-> "none", attachments |-> {},
     links_info |-> <<>>, attachments_info |-> <<>>, steps |-> steps]

\* a plausible slip: the harvest is called after the two download flows
SamDownload_harvestlast(pg) ==
    IF pg.exc = "login" THEN Raised("driver", <<"acquire", "login">>)
    ELSE IF pg.search = "none"
    THEN Raised("Could not find search input on SAM.gov", <<"acquire", "login", "search">>)
    ELSE IF pg.exc = "search" THEN Raised("driver", <<"acquire", "login", "search">>)
    ELSE IF pg.links = "none"
    THEN Raised("No opportunity links found in search results",
                <<"acquire", "login", "search", "settle", "open">>)
    ELSE IF pg.exc = "open"
    THEN Raised("driver", <<"acquire", "login", "search", "settle", "open">>)
    ELSE LET info == ExtractLinksAndAttachmentsInfo(pg)
         IN  [kind |-> "return", message |-> "none",
              pdf |-> PrimaryDocument(pg),
              attachments |-> DownloadAttachmentsOnPage(pg),
              links_info |-> info.links,
              attachments_info |-> info.attachments,
              steps |-> <<"acquire", "login", "search", "settle", "open", "settle",
                          "primary", "attachments", "extract", "return">>]

\* the body of _sam_download_with_persistent_session after the driver was acquired
SamDownload(pg) ==
    IF pg.exc = "login" THEN Raised("driver", <<"acquire", "login">>)
    ELSE IF pg.search = "none"
    THEN Raised("Could not find search input on SAM.gov", <<"acquire", "login", "search">>)
    ELSE IF pg.exc = "search" THEN Raised("driver", <<"acquire", "login", "search">>)
    ELSE IF pg.links = "none"
    THEN Raised("No opportunity links found in search results",
                <<"acquire", "login", "search", "settle", "open">>)
    ELSE IF pg.exc = "open"
    THEN Raised("driver", <<"acquire", "login", "search", "settle", "open">>)
    ELSE LET info == ExtractLinksAndAttachmentsInfo(pg)
         IN  [kind |-> "return", message |-> "none",
              pdf |-> PrimaryDocument(pg),
              attachments |-> DownloadAttachmentsOnPage(pg),
              links_info |-> info.links,
              attachments_info |-> info.attachments,
              steps |-> <<"acquire", "login", "search", "settle", "open", "settle",
                          "extract", "primary", "attachments", "return">>]

\* a plausible slip: no try/except in sam_start, so an error of the run leaves
\* the route as an unhandled exception and no answer is made
SamStart_nohandler(a, pg, folder) ==
    IF a.ret = "raise"
    THEN [ok |-> FALSE, kind |-> "crash", message |-> "none", folder |-> "none",
          pdf |-> "none",
          attachments |-> {}, links_info |-> <<>>, attachments_info |-> <<>>,
          steps |-> <<"acquire">>]
    ELSE LET r == SamDownload(pg)
         IN  [ok |-> r.kind = "return",
              kind |-> IF r.kind = "return" THEN "return" ELSE "crash",
              message |-> "none",
              folder |-> IF r.kind = "return" THEN folder ELSE "none",
              pdf |-> r.pdf, attachments |-> r.attachments,
              links_info |-> r.links_info, attachments_info |-> r.attachments_info,
              steps |-> r.steps]

\* sam_start: the JSON answer made from the run; folder is the opportunity
\* folder created before the run
SamStart(a, pg, folder) ==
    IF a.ret = "raise"
    THEN [ok |-> FALSE, kind |-> "raise", message |-> "session", folder |-> folder,
          pdf |-> "none",
          attachments |-> {}, links_info |-> <<>>, attachments_info |-> <<>>,
          steps |-> <<"acquire">>]
    ELSE LET r == SamDownload(pg)
         IN  [ok |-> r.kind = "return", kind |-> r.kind, message |-> r.message,
              folder |-> folder,
              pdf |-> r.pdf, attachments |-> r.attachments,
              links_info |-> r.links_info, attachments_info |-> r.attachments_info,
              steps |-> r.steps]

\* one sam_start request: acquire, then the run on page pg
Run(dir, env, pg) ==
    LET a == GetPersistentEdgeDriver(persistent_driver, session_start_time, procs,
                                     download_path, clock, dir,
                                     env.create, env.navOk, env.rebindOk)
        r == SamStart(a, pg, dir)
        failed == a.ret = "handle" /\ ~r.ok
        h == IF failed
             THEN OnAutomationError(a.driver, a.start, a.procs)
             ELSE [driver |-> a.driver, start |-> a.start, procs |-> a.procs, quit |-> NoDriver]
    IN  /\ (a.ret = "handle" /\ a.reused) \/ CanStart(procs)
        /\ persistent_driver' = h.driver
        /\ session_start_time' = h.start
        /\ procs' = h.procs
        /\ download_path' = a.path
        /\ last_activity' = IF a.ret = "handle" THEN clock ELSE last_activity
        /\ lastOp' = OpRecord("run", [a EXCEPT !.runQuit = h.quit],
                              IF r.ok THEN "ok" ELSE "failed")
        /\ page' = pg
        /\ result' = r
        /\ UNCHANGED <<clock, outsideSession>>

\* acquire(): one call of _get_persistent_edge_driver by a serialized caller
Acquire(dir, env) ==
    LET a == GetPersistentEdgeDriver(persistent_driver, session_start_time, procs,
                                     download_path, clock, dir,
                                     env.create, env.navOk, env.rebindOk)
    IN  /\ (a.ret = "handle" /\ a.reused) \/ CanStart(procs)
        /\ persistent_driver' = a.driver
        /\ session_start_time' = a.start
        /\ procs' = a.procs
        /\ download_path' = a.path
        /\ last_activity' = IF a.ret = "handle" THEN clock ELSE last_activity
        /\ lastOp' = OpRecord("acquire", a, "none")
        /\ page' = NoPage
        /\ result' = NoResult
        /\ UNCHANGED <<clock, outsideSession>>

\* a plausible slip: no try/except around quit(), so an exception of quit()
\* leaves the function before the handle is cleared
Cleanup_noswallow ==
    /\ IF persistent_driver # NoDriver
       THEN /\ procs' = Quit(procs, persistent_driver)
            /\ IF QuitRaises(procs, persistent_driver)
               THEN /\ UNCHANGED <<persistent_driver, session_start_time>>
                    /\ lastOp' = OpRecord("cleanup",
                                    [NoAcquire EXCEPT !.ret = "raise",
                                                      !.quit = persistent_driver,
                                                      !.quitRaised = TRUE],
                                    "none")
               ELSE /\ persistent_driver' = NoDriver
                    /\ session_start_time' = NoTime
                    /\ lastOp' = OpRecord("cleanup",
                                    [NoAcquire EXCEPT !.quit = persistent_driver], "none")
       ELSE /\ UNCHANGED <<procs, persistent_driver, session_start_time>>
            /\ lastOp' = OpRecord("cleanup", NoAcquire, "none")
    /\ page' = NoPage
    /\ result' = NoResult
    /\ UNCHANGED <<download_path, clock, last_activity, outsideSession>>

\* _cleanup_persistent_session
Cleanup ==
    /\ IF persistent_driver # NoDriver
       THEN /\ procs' = Quit(procs, persistent_driver)
            /\ persistent_driver' = NoDriver
            /\ session_start_time' = NoTime
            /\ lastOp' = OpRecord("cleanup",
                            [NoAcquire EXCEPT !.quit = persistent_driver,
                                              !.quitRaised = QuitRaises(procs, persistent_driver)],
                            "none")
       ELSE /\ UNCHANGED <<procs, persistent_driver, session_start_time>>
            /\ lastOp' = OpRecord("cleanup", NoAcquire, "none")
    /\ page' = NoPage
    /\ result' = NoResult
    /\ UNCHANGED <<download_path, clock, last_activity, outsideSession>>

\* time passes between two operations
Advance(t) ==
    /\ t > clock
    /\ clock' = t
    /\ UNCHANGED <<persistent_driver, session_start_time, procs, download_path,
                   last_activity, lastOp, page, result, outsideSession>>

\* the browser stops answering WebDriver commands while its process keeps running
\* (window closed by the user, renderer hung)
BrowserHangs(p) ==
    /\ procs[p] = "responsive"
    /\ procs' = [procs EXCEPT ![p] = "unresponsive"]
    /\ UNCHANGED <<persistent_driver, session_start_time, download_path, clock,
                   last_activity, lastOp, page, result, outsideSession>>

\* the browser process exits on its own (crash, killed by the user)
BrowserDies(p) ==
    /\ procs[p] \in {"responsive", "unresponsive"}
    /\ procs' = [procs EXCEPT ![p] = "dead"]
    /\ UNCHANGED <<persistent_driver, session_start_time, download_path, clock,
                   last_activity, lastOp, page, result, outsideSession>>

\* ---------------------------------------------------------------------
\* Ordered locator candidates (find_elements over a list of XPaths)
\* ---------------------------------------------------------------------
\* One candidate as the page answers it: find_elements raises, or returns the
\* matching elements in document order; an element has an identity and is
\* displayed or not.
Elem(id, visible) == [id |-> id, visible |-> visible]
Cand(raises, els) == [raises |-> raises, els |-> els]

\* `elements and elements[0].is_displayed()` inside try/except: continue
FirstDisplayed(c) == ~c.raises /\ Len(c.els) > 0 /\ c.els[1].visible

\* the for/break loop over login_indicators or profile_indicators
AnyIndicator(cands) ==
    \E i \in 1..Len(cands) : FirstDisplayed(cands[i])

\* ---------------------------------------------------------------------
\* _ensure_sam_login
\* ---------------------------------------------------------------------
max_wait_time == 600
check_interval == 3

\* pages the login gate can see: the matches of the sign-in candidates
SignInDoms ==
    {<<Cand(FALSE, <<>>), Cand(FALSE, <<>>)>>,
     <<Cand(FALSE, <<Elem(1, TRUE)>>), Cand(FALSE, <<>>)>>,
     <<Cand(TRUE, <<>>), Cand(FALSE, <<Elem(1, FALSE), Elem(2, TRUE)>>)>>,
     <<Cand(FALSE, <<Elem(1, FALSE)>>), Cand(FALSE, <<Elem(2, TRUE)>>)>>}

\* and of the profile/account candidates
ProfileDoms ==
    {<<Cand(FALSE, <<>>), Cand(FALSE, <<>>)>>,
     <<Cand(FALSE, <<>>), Cand(FALSE, <<Elem(3, TRUE)>>)>>,
     <<Cand(FALSE, <<Elem(3, FALSE)>>), Cand(TRUE, <<>>)>>}

LoginDoms == [signin : SignInDoms, profile : ProfileDoms]

NoDom == [signin |-> <<>>, profile |-> <<>>]

\* one pass of the wait loop's body on page d: the new login_complete
\* a plausible slip: the profile indicators are not consulted
PollCompletes_noprofile(d) == ~AnyIndicator(d.signin)

PollCompletes(d) ==
    LET still_needs_login == AnyIndicator(d.signin)
    IN  IF ~still_needs_login THEN TRUE ELSE AnyIndicator(d.profile)

\* what the except clause of _ensure_sam_login does with the RuntimeError
\* raised on timeout: it prints and the function goes on to return
OnLoginCheckFailed == "returned"

LoginIdle ==
    /\ lg_pc = "idle"
    /\ login_needed = FALSE
    /\ login_complete = FALSE
    /\ lg_elapsed = 0
    /\ lg_dom = NoDom
    /\ lg_outcome = "none"
    /\ lg_first = 0

\* a run starts: _get_persistent_edge_driver, then _ensure_sam_login is entered
LoginRunStarts(dir, env) ==
    LET a == GetPersistentEdgeDriver(persistent_driver, session_start_time, procs,
                                     download_path, clock, dir,
                                     env.create, env.navOk, env.rebindOk)
    IN  /\ lg_pc \in {"idle", "finished"}
        /\ (a.ret = "handle" /\ a.reused) \/ CanStart(procs)
        /\ persistent_driver' = a.driver
        /\ session_start_time' = a.start
        /\ procs' = a.procs
        /\ download_path' = a.path
        /\ last_activity' = IF a.ret = "handle" THEN clock ELSE last_activity
        /\ lastOp' = OpRecord("run", a, IF a.ret = "handle" THEN "running" ELSE "failed")
        /\ page' = NoPage
        /\ result' = IF a.ret = "handle"
                      THEN [NoResult EXCEPT !.folder = dir]
                      ELSE SamStart(a, GoodPage, dir)
        /\ lg_pc' = IF a.ret = "handle" THEN "start" ELSE "finished"
        /\ login_needed' = FALSE
        /\ login_complete' = FALSE
        /\ lg_elapsed' = 0
        /\ lg_dom' = NoDom
        /\ lg_outcome' = "none"
        /\ lg_first' = 0
        /\ UNCHANGED <<clock, outsideLogin>>

\* driver.current_url / driver.get before the try block: an exception here
\* leaves the function
LoginUrlCheck(raises) ==
    /\ lg_pc = "start"
    /\ lg_pc' = IF raises THEN "done" ELSE "initial"
    /\ lg_outcome' = IF raises THEN "raised" ELSE lg_outcome
    /\ UNCHANGED <<sessionVars, outsideLogin, login_needed, login_complete, lg_elapsed, lg_dom, lg_first>>

\* the first pass over login_indicators
LoginInitialCheck(d) ==
    /\ lg_pc = "initial"
    /\ lg_dom' = d
    /\ login_needed' = AnyIndicator(d.signin)
    /\ IF AnyIndicator(d.signin)
       THEN lg_pc' = "loop" /\ lg_outcome' = lg_outcome
       ELSE lg_pc' = "done" /\ lg_outcome' = "returned"
    /\ UNCHANGED <<sessionVars, outsideLogin, login_complete, lg_elapsed, lg_first>>

\* one iteration of the wait loop: sleep check_interval, then look at the page
LoginPoll(d) ==
    /\ lg_pc = "loop"
    /\ ~login_complete /\ lg_elapsed < max_wait_time
    /\ lg_elapsed' = lg_elapsed + check_interval
    /\ lg_dom' = d
    /\ login_complete' = PollCompletes(d)
    /\ lg_first' = IF lg_first = 0 /\ (~AnyIndicator(d.signin) \/ AnyIndicator(d.profile))
                   THEN lg_elapsed + check_interval ELSE lg_first
    /\ UNCHANGED <<sessionVars, outsideLogin, lg_pc, login_needed, lg_outcome>>

\* the loop is left: on login_complete the function returns; otherwise the
\* RuntimeError("Login timeout ...") is raised inside the try block
LoginLoopExit ==
    /\ lg_pc = "loop"
    /\ login_complete \/ ~(lg_elapsed < max_wait_time)
    /\ lg_pc' = "done"
    /\ lg_outcome' = IF login_complete THEN "returned" ELSE OnLoginCheckFailed
    /\ UNCHANGED <<sessionVars, outsideLogin, login_needed, login_complete, lg_elapsed, lg_dom, lg_first>>

\* the rest of the run after the login gate, and sam_start's answer
LoginRunContinues(pg) ==
    /\ lg_pc = "done"
    /\ (pg.exc = "login") <=> (lg_outcome = "raised")
    /\ LET a == [NoAcquire EXCEPT !.ret = "handle"]
           r == SamStart(a, pg, result.folder)
           h == IF ~r.ok
                THEN OnAutomationError(persistent_driver, session_start_time, procs)
                ELSE [driver |-> persistent_driver, start |-> session_start_time,
                      procs |-> procs, quit |-> NoDriver]
       IN  /\ result' = r
           /\ page' = pg
           /\ persistent_driver' = h.driver
           /\ session_start_time' = h.start
           /\ procs' = h.procs
           /\ lastOp' = [lastOp EXCEPT !.run = IF r.ok THEN "ok" ELSE "failed",
                                       !.runQuit = h.quit]
    /\ lg_pc' = "finished"
    /\ UNCHANGED <<download_path, clock, last_activity, outsideLogin,
                   login_needed, login_complete, lg_elapsed, lg_dom, lg_outcome, lg_first>>

LoginNext ==
    \/ \E dir \in Dirs, env \in EnvsNow : LoginRunStarts(dir, env)
    \/ \E raises \in BOOLEAN : LoginUrlCheck(raises)
    \/ \E d \in LoginDoms : LoginInitialCheck(d)
    \/ \E d \in LoginDoms : LoginPoll(d)
    \/ LoginLoopExit
    \/ \E pg \in RunPages : LoginRunContinues(pg)

\* ---------------------------------------------------------------------
\* The download directory and the two waits on it
\* ---------------------------------------------------------------------
timeout_secs == 300
pdf_poll == 2
att_deadline == 240
att_poll == 1

File(base, ext) == [base |-> base, ext |-> ext]
NoFile == File("none", "none")

TempExts == {"crdownload", "tmp", "partial"}

\* the downloads the browser may make after a click, and the file each leaves
Downloads == {"d1", "d2"}
FinalExt(d) == IF d = "d1" THEN "pdf" ELSE "docx"

\* the directory as a run can find it: empty, a PDF left by an earlier run, or
\* a temporary file left by an interrupted download
InitialDirs ==
    {<<>>, <<File("old", "pdf")>>, <<File("stale", "tmp")>>}

Without(f, x) == SelectSeq(f, LAMBDA y : y # x)

\* _has_temp_download
has_temp_download(f) ==
    \E i \in 1..Len(f) : f[i].ext \in TempExts

\* a plausible slip: min instead of max over st_mtime
newest_pdf_oldest(f) ==
    IF \E i \in 1..Len(f) : f[i].ext = "pdf"
    THEN f[CHOOSE i \in 1..Len(f) :
               f[i].ext = "pdf" /\ \A j \in 1..Len(f) : f[j].ext = "pdf" => i <= j]
    ELSE NoFile

\* _newest_pdf: the PDF with the largest st_mtime, None without one
newest_pdf(f) ==
    IF \E i \in 1..Len(f) : f[i].ext = "pdf"
    THEN f[CHOOSE i \in 1..Len(f) :
               f[i].ext = "pdf" /\ \A j \in 1..Len(f) : f[j].ext = "pdf" => j <= i]
    ELSE NoFile

\* _list_non_temp_files
list_non_temp_files(f) ==
    {f[i] : i \in {j \in 1..Len(f) : f[j].ext \notin TempExts}}

\* a plausible slip: the deadline ends the wait with an exception, as the
\* login wait does
OnDownloadTimeout_raise(wait) == "raised"

\* where a wait goes when its deadline passes: the PDF loop falls through with
\* main_pdf = None and a message, the attachment loop to `return []`
OnDownloadTimeout(wait) == IF wait = "pdf" THEN "pdf_done" ELSE "att_done"

WatchIdle ==
    /\ fs = <<>>
    /\ dl = [d \in Downloads |-> "pending"]
    /\ w_pc = "off"
    /\ w_elapsed = 0
    /\ before = {}
    /\ main_pdf = NoFile
    /\ att_result = {}
    /\ w_temp_at_report = FALSE
    /\ w_after = {}
    /\ dl_all = FALSE

\* the browser starts writing a download under its temporary name
BrowserStartsDownload(d) ==
    /\ w_pc \in {"pdf_loop", "pdf_list", "pdf_done", "att_loop", "att_list", "att_done"}
    /\ dl[d] = "pending"
    /\ dl' = [dl EXCEPT ![d] = "temp"]
    /\ fs' = Append(fs, File(d, "crdownload"))
    /\ UNCHANGED <<outsideWatch, dl_all, w_pc, w_elapsed, before, main_pdf, att_result,
                   w_temp_at_report, w_after>>

\* the browser completes a download: the temporary file becomes the final one
BrowserFinishesDownload(d) ==
    /\ dl[d] = "temp"
    /\ dl' = [dl EXCEPT ![d] = "done"]
    /\ fs' = Append(Without(fs, File(d, "crdownload")), File(d, FinalExt(d)))
    /\ UNCHANGED <<outsideWatch, dl_all, w_pc, w_elapsed, before, main_pdf, att_result,
                   w_temp_at_report, w_after>>

\* the final download button is clicked and the PDF wait begins
WatchPdfStart ==
    /\ w_pc = "idle"
    /\ w_pc' = "pdf_loop"
    /\ w_elapsed' = 0
    /\ UNCHANGED <<outsideWatch, dl_all, fs, dl, before, main_pdf, att_result,
                   w_temp_at_report, w_after>>

\* a plausible slip: start_time is taken inside the loop, so the time waited
\* never adds up and a temporary file that stays keeps the loop going
WatchPdfPoll_restart ==
    /\ w_pc = "pdf_loop"
    /\ w_pc' = IF has_temp_download(fs) THEN "pdf_loop" ELSE "pdf_list"
    /\ UNCHANGED <<outsideWatch, dl_all, fs, dl, w_elapsed, before, main_pdf, att_result,
                   w_temp_at_report, w_after>>

\* one pass of the PDF wait up to the temporary-file check: sleep, then
\* `if _has_temp_download(download_dir): continue`; at the deadline the loop ends
WatchPdfPoll ==
    /\ w_pc = "pdf_loop"
    /\ IF w_elapsed < timeout_secs
       THEN /\ w_elapsed' = w_elapsed + pdf_poll
            /\ w_pc' = IF has_temp_download(fs) THEN "pdf_loop" ELSE "pdf_list"
       ELSE /\ w_pc' = OnDownloadTimeout("pdf")
            /\ UNCHANGED w_elapsed
    /\ UNCHANGED <<outsideWatch, dl_all, fs, dl, before, main_pdf, att_result,
                   w_temp_at_report, w_after>>

\* the directory listing of the same pass: _newest_pdf, the rename to
\* SAM_<notice_id>.pdf and the break. renameOk: shutil.move returns; when it
\* raises, the handler prints and the path found is reported as it is
WatchPdfList(renameOk) ==
    /\ w_pc = "pdf_list"
    /\ LET newest == newest_pdf(fs)
           rest == Without(fs, File("SAM_id", "pdf"))
       IN  IF newest # NoFile
           THEN /\ IF renameOk /\ newest # File("SAM_id", "pdf")
                   THEN /\ fs' = [i \in 1..Len(rest) |->
                                    IF rest[i] = newest THEN File("SAM_id", "pdf") ELSE rest[i]]
                        /\ main_pdf' = File("SAM_id", "pdf")
                   ELSE /\ fs' = fs
                        /\ main_pdf' = newest
                /\ w_pc' = "pdf_done"
                /\ w_temp_at_report' = has_temp_download(fs)
           ELSE /\ w_pc' = "pdf_loop"
                /\ UNCHANGED <<fs, main_pdf, w_temp_at_report>>
    /\ UNCHANGED <<outsideWatch, dl_all, dl, w_elapsed, before, att_result, w_after>>

\* _download_attachments_on_page up to its wait: the snapshot `before`, then
\* the Download All control is found and clicked, or it is not found and the
\* function's own handler returns []
WatchAttStart(found) ==
    /\ w_pc \in {"idle", "pdf_done"}
    /\ before' = list_non_temp_files(fs)
    /\ w_elapsed' = 0
    /\ w_temp_at_report' = FALSE
    /\ IF found
       THEN /\ w_pc' = "att_loop"
            /\ UNCHANGED <<att_result, w_after>>
       ELSE /\ w_pc' = "att_done"
            /\ att_result' = {}
            /\ w_after' = list_non_temp_files(fs)
    /\ dl_all' = found
    /\ UNCHANGED <<outsideWatch, fs, dl, main_pdf>>

\* one pass of the attachment wait up to the temporary-file check; at the
\* deadline the function returns []
WatchAttPoll ==
    /\ w_pc = "att_loop"
    /\ IF w_elapsed < att_deadline
       THEN /\ w_elapsed' = w_elapsed + att_poll
            /\ w_pc' = IF has_temp_download(fs) THEN "att_loop" ELSE "att_list"
            /\ UNCHANGED <<att_result, w_after>>
       ELSE /\ w_pc' = OnDownloadTimeout("att")
            /\ att_result' = {}
            /\ w_after' = list_non_temp_files(fs)
            /\ UNCHANGED w_elapsed
    /\ UNCHANGED <<outsideWatch, dl_all, fs, dl, before, main_pdf, w_temp_at_report>>

\* the listing of the same pass: after - before, returned when not empty
WatchAttList ==
    /\ w_pc = "att_list"
    /\ LET after == list_non_temp_files(fs)
           new == after \ before
       IN  IF new # {}
           THEN /\ att_result' = new
                /\ w_after' = after
                /\ w_temp_at_report' = has_temp_download(fs)
                /\ w_pc' = "att_done"
           ELSE /\ w_pc' = "att_loop"
                /\ UNCHANGED <<att_result, w_after, w_temp_at_report>>
    /\ UNCHANGED <<outsideWatch, dl_all, fs, dl, w_elapsed, before, main_pdf>>

WatchNext ==
    \/ \E d \in Downloads : BrowserStartsDownload(d)
    \/ \E d \in Downloads : BrowserFinishesDownload(d)
    \/ WatchPdfStart
    \/ WatchPdfPoll
    \/ \E renameOk \in BOOLEAN : WatchPdfList(renameOk)
    \/ \E found \in BOOLEAN : WatchAttStart(found)
    \/ WatchAttPoll
    \/ WatchAttList

\* ---------------------------------------------------------------------
\* Resolution of an ordered candidate list to one element
\* ---------------------------------------------------------------------
MaxCands == 3
MaxElems == 2

NoElem == Elem(0, FALSE)

\* the element lists find_elements can return on a page of MaxElems elements,
\* in document order
IdLists == {ids \in UNION {[1..n -> 1..MaxElems] : n \in 0..MaxElems} :
              \A i \in 1..Len(ids) : \A j \in 1..Len(ids) : i < j => ids[i] < ids[j]}

\* the answers of one candidate on a page whose element e is displayed iff vis[e]
CandsOn(vis) ==
    {Cand(TRUE, <<>>)} \cup
    {Cand(FALSE, [i \in 1..Len(ids) |-> Elem(ids[i], vis[ids[i]])]) : ids \in IdLists}

CandLists ==
    UNION {UNION {[1..n -> CandsOn(vis)] : n \in 0..MaxCands} : vis \in [1..MaxElems -> BOOLEAN]}

\* a candidate that answered with at least one element
HasMatch(c) == ~c.raises /\ Len(c.els) > 0

\* a candidate that answered with at least one displayed element
HasVisibleMatch(c) == ~c.raises /\ \E i \in 1..Len(c.els) : c.els[i].visible

\* the resolver the design describes: the first candidate with a displayed
\* match wins, by its first displayed element
ResolveFirst_visible(cands) ==
    IF \E i \in 1..Len(cands) : HasVisibleMatch(cands[i])
    THEN LET k == CHOOSE i \in 1..Len(cands) :
                     HasVisibleMatch(cands[i]) /\ \A j \in 1..(i - 1) : ~HasVisibleMatch(cands[j])
             e == CHOOSE i \in 1..Len(cands[k].els) :
                     cands[k].els[i].visible /\ \A j \in 1..(i - 1) : ~cands[k].els[j].visible
         IN  cands[k].els[e]
    ELSE NoElem

\* `for xpath in candidates: try: elements = find_elements(...); if elements:
\*  tab = elements[0]; break; except: continue` as used for the tab, the More
\* menu, the Download item, the PDF option and the final submit
RECURSIVE ResolveFirst(_)
ResolveFirst(cands) ==
    IF cands = <<>> THEN NoElem
    ELSE IF ~Head(cands).raises /\ Head(cands).els # <<>>
         THEN Head(cands).els[1]
         ELSE ResolveFirst(Tail(cands))

ResolveIdle ==
    /\ rs_cands = <<>>
    /\ rs_pc = "off"
    /\ rs_choice = NoElem
    /\ rs_login_needed = FALSE

\* one resolution pass over the candidate list, as an element lookup and as
\* the sign-in indicator check
Resolve ==
    /\ rs_pc = "input"
    /\ rs_pc' = "resolved"
    /\ rs_choice' = ResolveFirst(rs_cands)
    /\ rs_login_needed' = AnyIndicator(rs_cands)
    /\ UNCHANGED <<outsideResolve, rs_cands>>

ResolveNext == Resolve

\* ---------------------------------------------------------------------
\* _sanitize_folder_name (strings are sequences of characters)
\* ---------------------------------------------------------------------
\* the characters of the class [\\/:*?"<>|] and those \s and strip() take
ForbiddenChars == {"\\", "/", ":", "*", "?", "\"", "<", ">", "|"}
WhitespaceChars == {" ", "\t", "\n"}

\* longest unit of the titles tried, and how often a title repeats its unit
MaxUnit == 3
Reps == {1, 41, 121}
TitleChars == {"A", "b", "/", "?", " ", "\t", "."}

Repeat(u, k) == [i \in 1..(Len(u) * k) |-> u[((i - 1) % Len(u)) + 1]]

Titles ==
    {Repeat(u, k) : u \in UNION {[1..n -> TitleChars] : n \in 0..MaxUnit}, k \in Reps}
    \cup {<<"A", "/", "B", ":", " ", "R", "e", "p", "o", "r", "t", "?">>}

Untitled == <<"U", "n", "t", "i", "t", "l", "e", "d">>

\* str.strip()
Strip(s) ==
    IF \A i \in 1..Len(s) : s[i] \in WhitespaceChars
    THEN <<>>
    ELSE LET lo == CHOOSE i \in 1..Len(s) :
                      s[i] \notin WhitespaceChars /\ \A j \in 1..(i - 1) : s[j] \in WhitespaceChars
             hi == CHOOSE i \in 1..Len(s) :
                      s[i] \notin WhitespaceChars /\ \A j \in (i + 1)..Len(s) : s[j] \in WhitespaceChars
         IN  SubSeq(s, lo, hi)

\* _re.sub(r"[class]+", " ", s): every maximal run of the class becomes one space
SubRuns(class, s) ==
    LET marked == [i \in 1..Len(s) |->
                     IF s[i] \notin class THEN s[i]
                     ELSE IF i > 1 /\ s[i - 1] \in class THEN "" ELSE " "]
    IN  SelectSeq(marked, LAMBDA c : c # "")

\* a plausible slip: the second strip() is left out
sanitize_folder_name_nostrip(name) ==
    LET n1 == Strip(name)
        n2 == SubRuns(ForbiddenChars, n1)
        n3 == SubRuns(WhitespaceChars, n2)
        n4 == IF n3 = <<>> THEN Untitled ELSE n3
    IN  SubSeq(n4, 1, IF Len(n4) < 120 THEN Len(n4) ELSE 120)

sanitize_folder_name(name) ==
    LET n1 == Strip(name)
        n2 == SubRuns(ForbiddenChars, n1)
        n3 == Strip(SubRuns(WhitespaceChars, n2))
        n4 == IF n3 = <<>> THEN Untitled ELSE n3
    IN  SubSeq(n4, 1, IF Len(n4) < 120 THEN Len(n4) ELSE 120)

\* CONTRACTS_BASE, as the directories from the root down to it
CONTRACTS_BASE == <<"home", "Government_Contracts">>

\* os.path.join(CONTRACTS_BASE, name) for a name without a separator, and the
\* directory that path names to os.makedirs and to every later use of it:
\* "." is the directory itself, ".." its parent
JoinBase(name) ==
    [path |-> Append(CONTRACTS_BASE, name),
     dir |-> IF name = <<".">> THEN CONTRACTS_BASE
             ELSE IF name = <<".", ".">> THEN SubSeq(CONTRACTS_BASE, 1, Len(CONTRACTS_BASE) - 1)
             ELSE Append(CONTRACTS_BASE, name)]

create_contract_folder(job_title) == JoinBase(sanitize_folder_name(job_title))

NoFolder == [path |-> <<>>, dir |-> <<>>]

SanitizeIdle ==
    /\ sn_name = <<>>
    /\ sn_pc = "off"
    /\ sn_out = <<>>
    /\ sn_folder = NoFolder

\* one call of _sanitize_folder_name
Sanitize ==
    /\ sn_pc = "input"
    /\ sn_pc' = "returned"
    /\ sn_out' = sanitize_folder_name(sn_name)
    /\ UNCHANGED <<outsideSanitize, sn_name, sn_folder>>

\* one call of _create_contract_folder
CreateContractFolder ==
    /\ sn_pc = "input"
    /\ sn_pc' = "created"
    /\ sn_out' = sanitize_folder_name(sn_name)
    /\ sn_folder' = create_contract_folder(sn_name)
    /\ UNCHANGED <<outsideSanitize, sn_name>>

SanitizeNext == Sanitize \/ CreateContractFolder

\* ---------------------------------------------------------------------
\* _extract_links_and_attachments_info, lookup by lookup
\* ---------------------------------------------------------------------
\* most elements one lookup returns, and the file selectors tried
MaxLinks == 2
MaxFiles == 1
FileSelectors == 1..2

\* href values: None, an external URL, a SAM.gov URL, a URL that is not http
Hrefs == {"", "http://x", "https://sam.gov/z", "mailto:q"}
StartsWithHttp(h) == h \in {"http://x", "https://sam.gov/z"}
MentionsSam(h) == h = "https://sam.gov/z"

\* an <a href> element: reading its attributes raises, or gives href and the
\* stripped text
LinkElems ==
    {[raises |-> TRUE, href |-> "", text |-> ""]}
        \cup [raises : {FALSE}, href : Hrefs, text : {""}]
        \cup {[raises |-> FALSE, href |-> "http://x", text |-> "more"]}

\* an element a file selector matched: reading it raises, or gives a file
\* name ("" when neither text nor href names a file); the lookup of its
\* parent for the size raises or not
FileElems ==
    {[raises |-> TRUE, filename |-> "", parentRaises |-> FALSE],
     [raises |-> FALSE, filename |-> "", parentRaises |-> FALSE],
     [raises |-> FALSE, filename |-> "f.pdf", parentRaises |-> FALSE],
     [raises |-> FALSE, filename |-> "f.pdf", parentRaises |-> TRUE]}

\* the answers of the tab candidates
TabAnswers ==
    {<<Cand(FALSE, <<>>), Cand(FALSE, <<>>)>>,
     <<Cand(TRUE, <<>>), Cand(TRUE, <<>>)>>,
     <<Cand(TRUE, <<>>), Cand(FALSE, <<Elem(1, TRUE)>>)>>,
     <<Cand(FALSE, <<Elem(1, FALSE)>>), Cand(FALSE, <<>>)>>}

ExtractPages ==
    [tabCands : TabAnswers,
     clickRaises : BOOLEAN,
     linkLookupRaises : BOOLEAN,
     links : UNION {[1..n -> LinkElems] : n \in 0..MaxLinks},
     files : [FileSelectors -> {Cand(TRUE, <<>>)} \cup
                                {Cand(FALSE, els) : els \in UNION {[1..n -> FileElems] : n \in 0..MaxFiles}}]]

NoExtractPage ==
    [tabCands |-> <<>>, clickRaises |-> FALSE, linkLookupRaises |-> FALSE,
     links |-> <<>>, files |-> [k \in FileSelectors |-> Cand(FALSE, <<>>)]]

NoExtract == [raised |-> FALSE, links |-> <<>>, attachments |-> <<>>]

\* `for link_el in link_elements:` with its try/except around each element
RECURSIVE HarvestLinks(_, _)
HarvestLinks(els, acc) ==
    IF els = <<>> THEN acc
    ELSE LET e == Head(els)
             ext == ~e.raises /\ e.href # "" /\ StartsWithHttp(e.href) /\ ~MentionsSam(e.href)
             seen == \E i \in 1..Len(acc) : acc[i].url = e.href
             item == [url |-> e.href, text |-> IF e.text # "" THEN e.text ELSE e.href]
         IN  HarvestLinks(Tail(els), IF ext /\ ~seen THEN Append(acc, item) ELSE acc)

\* a plausible slip: the `filename not in [...]` test is left out
RECURSIVE HarvestFiles_nodedup(_, _)
HarvestFiles_nodedup(els, acc) ==
    IF els = <<>> THEN acc
    ELSE LET e == Head(els)
             named == ~e.raises /\ e.filename # ""
             item == [filename |-> e.filename,
                      size |-> IF e.parentRaises THEN "" ELSE "12 KB"]
         IN  HarvestFiles_nodedup(Tail(els), IF named THEN Append(acc, item) ELSE acc)

\* `for el in elements:` of one file selector, with its try/except around each
\* element and around the size lookup
RECURSIVE HarvestFiles(_, _)
HarvestFiles(els, acc) ==
    IF els = <<>> THEN acc
    ELSE LET e == Head(els)
             named == ~e.raises /\ e.filename # ""
             seen == \E i \in 1..Len(acc) : acc[i].filename = e.filename
             item == [filename |-> e.filename,
                      size |-> IF e.parentRaises THEN "" ELSE "12 KB"]
         IN  HarvestFiles(Tail(els), IF named /\ ~seen THEN Append(acc, item) ELSE acc)

\* `for selector in file_selectors:` with its try/except around each selector
RECURSIVE HarvestSelectors(_, _, _)
HarvestSelectors(files, k, acc) ==
    IF k \notin DOMAIN files THEN acc
    ELSE HarvestSelectors(files, k + 1,
                          IF files[k].raises THEN acc ELSE HarvestFiles(files[k].els, acc))

\* the body of the outer try block: exc says that an exception left it, links
\* and attachments are `result` as it stood then
ExtractBody(px) ==
    LET tab == ResolveFirst(px.tabCands)
    IN  IF tab = NoElem
        THEN [exc |-> FALSE, links |-> <<>>, attachments |-> <<>>]
        ELSE IF px.clickRaises
        THEN [exc |-> TRUE, links |-> <<>>, attachments |-> <<>>]
        ELSE [exc |-> FALSE,
              links |-> IF px.linkLookupRaises THEN <<>> ELSE HarvestLinks(px.links, <<>>),
              attachments |-> HarvestSelectors(px.files, 1, <<>>)]

\* a plausible slip: no outer try/except, so an exception of the body leaves
\* the function
extract_links_and_attachments_info_noexcept(px) ==
    LET b == ExtractBody(px)
    IN  [raised |-> b.exc, links |-> b.links, attachments |-> b.attachments]

\* the outer `except Exception` prints and falls through to `return result`
extract_links_and_attachments_info(px) ==
    LET b == ExtractBody(px)
    IN  [raised |-> FALSE, links |-> b.links, attachments |-> b.attachments]

ExtractIdle ==
    /\ ex_page = NoExtractPage
    /\ ex_pc = "off"
    /\ ex_result = NoExtract

\* one call of _extract_links_and_attachments_info
Extract ==
    /\ ex_pc = "input"
    /\ ex_pc' = "returned"
    /\ ex_result' = extract_links_and_attachments_info(ex_page)
    /\ UNCHANGED <<outsideExtract, ex_page>>

ExtractNext == Extract

\* ---------------------------------------------------------------------
\* Two sam_start requests served by two threads of the development server
\* ---------------------------------------------------------------------
Threads == {1, 2}

\* polls of one wait before its deadline
MaxPolls == 2

\* `folder` of each request: the two opportunities have different titles
FolderOf(t) == IF t = 1 THEN "dir1" ELSE "dir2"

\* a file the browser wrote: the request whose click caused the download, what
\* it is and the directory it was written to
DiskFile(t, kind, dir) == [by |-> t, kind |-> kind, dir |-> dir]

\* Path(dirpath).glob(...) on a request's folder
FilesIn(d, dir) == SelectSeq(d, LAMBDA f : f.dir = dir)

\* _newest_pdf on a request's folder
NewestPdfIn(d, dir) ==
    LET pdfs == SelectSeq(d, LAMBDA f : f.dir = dir /\ f.kind = "pdf")
    IN  IF pdfs = <<>> THEN NoFile ELSE pdfs[Len(pdfs)]

SeqRange(q) == {q[i] : i \in 1..Len(q)}

ThreadsIdle ==
    /\ th_pc = [t \in Threads |-> "off"]
    /\ disk = <<>>
    /\ th_before = [t \in Threads |-> {}]
    /\ th_main_pdf = [t \in Threads |-> NoFile]
    /\ th_attachments = [t \in Threads |-> {}]
    /\ th_polls = [t \in Threads |-> 0]

\* _get_persistent_edge_driver(download_dir) by thread t: the browser is
\* started with, or rebound to, the folder of this request
ThreadAcquires(t, env) ==
    LET a == GetPersistentEdgeDriver(persistent_driver, session_start_time, procs,
                                     download_path, clock, FolderOf(t),
                                     env.create, env.navOk, env.rebindOk)
    IN  /\ th_pc[t] = "start"
        /\ a.ret = "handle"
        /\ persistent_driver' = a.driver
        /\ session_start_time' = a.start
        /\ procs' = a.procs
        /\ download_path' = a.path
        /\ th_pc' = [th_pc EXCEPT ![t] = "pdf_click"]
        /\ lastOp' = OpRecord("acquire", a, "none")
        /\ UNCHANGED <<clock, last_activity, page, result, outsideThreads,
                       disk, th_before, th_main_pdf, th_attachments, th_polls>>

\* the final download button is clicked: the browser writes the PDF to the
\* directory it is bound to at that moment
ThreadClicksPdf(t) ==
    /\ th_pc[t] = "pdf_click"
    /\ disk' = Append(disk, DiskFile(t, "pdf", download_path))
    /\ th_pc' = [th_pc EXCEPT ![t] = "pdf_wait"]
    /\ th_polls' = [th_polls EXCEPT ![t] = 0]
    /\ UNCHANGED <<sessionVars, outsideThreads, th_before, th_main_pdf, th_attachments>>

\* one pass of the PDF wait on the request's folder, or its deadline
ThreadPollsPdf(t) ==
    /\ th_pc[t] = "pdf_wait"
    /\ LET newest == NewestPdfIn(disk, FolderOf(t))
       IN  IF th_polls[t] < MaxPolls
           THEN IF newest # NoFile
                THEN /\ th_main_pdf' = [th_main_pdf EXCEPT ![t] = newest]
                     /\ th_pc' = [th_pc EXCEPT ![t] = "att_before"]
                     /\ UNCHANGED th_polls
                ELSE /\ th_polls' = [th_polls EXCEPT ![t] = @ + 1]
                     /\ UNCHANGED <<th_main_pdf, th_pc>>
           ELSE /\ th_pc' = [th_pc EXCEPT ![t] = "att_before"]
                /\ UNCHANGED <<th_main_pdf, th_polls>>
    /\ UNCHANGED <<sessionVars, outsideThreads, disk, th_before, th_attachments>>

\* before = set(_list_non_temp_files(download_dir))
ThreadSnapshots(t) ==
    /\ th_pc[t] = "att_before"
    /\ th_before' = [th_before EXCEPT ![t] = SeqRange(FilesIn(disk, FolderOf(t)))]
    /\ th_pc' = [th_pc EXCEPT ![t] = "att_click"]
    /\ UNCHANGED <<sessionVars, outsideThreads, disk, th_main_pdf, th_attachments, th_polls>>

\* Download All is clicked: the browser writes the bundle to the directory it
\* is bound to at that moment
ThreadClicksDownloadAll(t) ==
    /\ th_pc[t] = "att_click"
    /\ disk' = Append(disk, DiskFile(t, "att", download_path))
    /\ th_pc' = [th_pc EXCEPT ![t] = "att_wait"]
    /\ th_polls' = [th_polls EXCEPT ![t] = 0]
    /\ UNCHANGED <<sessionVars, outsideThreads, th_before, th_main_pdf, th_attachments>>

\* one pass of the attachment wait on the request's folder, or its deadline
ThreadPollsAttachments(t) ==
    /\ th_pc[t] = "att_wait"
    /\ LET new == SeqRange(FilesIn(disk, FolderOf(t))) \ th_before[t]
       IN  IF th_polls[t] < MaxPolls
           THEN IF new # {}
                THEN /\ th_attachments' = [th_attachments EXCEPT ![t] = new]
                     /\ th_pc' = [th_pc EXCEPT ![t] = "done"]
                     /\ UNCHANGED th_polls
                ELSE /\ th_polls' = [th_polls EXCEPT ![t] = @ + 1]
                     /\ UNCHANGED <<th_attachments, th_pc>>
           ELSE /\ th_pc' = [th_pc EXCEPT ![t] = "done"]
                /\ UNCHANGED <<th_attachments, th_polls>>
    /\ UNCHANGED <<sessionVars, outsideThreads, disk, th_before, th_main_pdf>>

ThreadsNext ==
    \E t \in Threads :
        \/ \E env \in EnvsNow : ThreadAcquires(t, env)
        \/ ThreadClicksPdf(t)
        \/ ThreadPollsPdf(t)
        \/ ThreadSnapshots(t)
        \/ ThreadClicksDownloadAll(t)
        \/ ThreadPollsAttachments(t)

\* ---------------------------------------------------------------------
\* Two acquires by two threads, statement by statement: the function holds
\* no lock, so the threads interleave between its reads and writes of
\* _persistent_driver and _session_start_time
\* ---------------------------------------------------------------------
\* thread t evaluates needs_new_session and, with a session it finds fresh,
\* runs the reuse branch
RaceChecks(t, rebindOk) ==
    /\ th_pc[t] = "start"
    /\ IF /\ persistent_driver # NoDriver
          /\ ~needs_new_session(persistent_driver, session_start_time, clock)
       THEN IF ReuseReturns(procs, persistent_driver, rebindOk)
            THEN /\ th_pc' = [th_pc EXCEPT ![t] = "acquired"]
                 /\ download_path' = IF rebindOk THEN FolderOf(t) ELSE download_path
                 /\ UNCHANGED persistent_driver
            ELSE /\ th_pc' = [th_pc EXCEPT ![t] = "teardown"]
                 /\ persistent_driver' = NoDriver
                 /\ UNCHANGED download_path
       ELSE /\ th_pc' = [th_pc EXCEPT ![t] = "teardown"]
            /\ UNCHANGED <<persistent_driver, download_path>>
    /\ UNCHANGED <<session_start_time, procs, clock, last_activity, lastOp, page, result,
                   outsideThreads, disk, th_before, th_main_pdf, th_attachments, th_polls>>

\* `if _persistent_driver:` with the handle as it is now: quit() and clear
RaceTearsDown(t) ==
    /\ th_pc[t] = "teardown"
    /\ th_pc' = [th_pc EXCEPT ![t] = "create"]
    /\ procs' = IF persistent_driver # NoDriver THEN Quit(procs, persistent_driver) ELSE procs
    /\ persistent_driver' = NoDriver
    /\ UNCHANGED <<session_start_time, download_path, clock, last_activity, lastOp, page,
                   result, outsideThreads, disk, th_before, th_main_pdf, th_attachments,
                   th_polls>>

\* `_persistent_driver = webdriver.Edge(...)`, with the EdgeService fallback
RaceCreates(t, create) ==
    /\ th_pc[t] = "create"
    /\ IF create = "fail"
       THEN /\ th_pc' = [th_pc EXCEPT ![t] = "raised"]
            /\ UNCHANGED <<persistent_driver, procs, download_path>>
       ELSE /\ CanStart(procs)
            /\ th_pc' = [th_pc EXCEPT ![t] = "navigate"]
            /\ persistent_driver' = FreshPid(procs)
            /\ procs' = [procs EXCEPT ![FreshPid(procs)] = "responsive"]
            /\ download_path' = FolderOf(t)
    /\ UNCHANGED <<session_start_time, clock, last_activity, lastOp, page, result,
                   outsideThreads, disk, th_before, th_main_pdf, th_attachments, th_polls>>

\* `_session_start_time = current_time`, the first navigation on the handle
\* as it is now and the return; an exception of the navigation is re-raised
RaceNavigates(t, navOk) ==
    /\ th_pc[t] = "navigate"
    /\ session_start_time' = clock
    /\ th_pc' = [th_pc EXCEPT ![t] = IF navOk /\ persistent_driver # NoDriver
                                     THEN "acquired" ELSE "raised"]
    /\ UNCHANGED <<persistent_driver, procs, download_path, clock, last_activity, lastOp,
                   page, result, outsideThreads, disk, th_before, th_main_pdf,
                   th_attachments, th_polls>>

RaceNext ==
    \/ \E t \in Threads :
          \/ \E rebindOk \in BOOLEAN : RaceChecks(t, rebindOk)
          \/ RaceTearsDown(t)
          \/ \E create \in {"primary", "service", "fail"} : RaceCreates(t, create)
          \/ \E navOk \in BOOLEAN : RaceNavigates(t, navOk)
    \/ \E p \in Pids : BrowserHangs(p)

SessionInit ==
    /\ persistent_driver = NoDriver
    /\ session_start_time = NoTime
    /\ procs = [p \in Pids |-> "unstarted"]
    /\ download_path = "none"
    /\ clock = 0
    /\ last_activity = NoTime
    /\ lastOp = NoOp
    /\ page = NoPage
    /\ result = NoResult

WatchInit ==
    /\ SessionInit
    /\ LoginIdle
    /\ ResolveIdle
    /\ SanitizeIdle
    /\ ExtractIdle
    /\ ThreadsIdle
    /\ fs \in InitialDirs
    /\ dl = [d \in Downloads |-> "pending"]
    /\ w_pc = "idle"
    /\ w_elapsed = 0
    /\ before = {}
    /\ main_pdf = NoFile
    /\ att_result = {}
    /\ w_temp_at_report = FALSE
    /\ w_after = {}
    /\ dl_all = FALSE

ResolveInit ==
    /\ SessionInit
    /\ LoginIdle
    /\ WatchIdle
    /\ SanitizeIdle
    /\ ExtractIdle
    /\ ThreadsIdle
    /\ rs_cands \in CandLists
    /\ rs_pc = "input"
    /\ rs_choice = NoElem
    /\ rs_login_needed = FALSE

\* one request on each page a run can meet, from a fresh process
RunInit ==
    /\ persistent_driver = NoDriver
    /\ session_start_time = NoTime
    /\ procs = [p \in Pids |-> "unstarted"]
    /\ download_path = "none"
    /\ clock = 0
    /\ last_activity = NoTime
    /\ lastOp = NoOp
    /\ page \in AllPages
    /\ result = NoResult
    /\ LoginIdle
    /\ WatchIdle
    /\ ResolveIdle
    /\ SanitizeIdle
    /\ ExtractIdle
    /\ ThreadsIdle

\* every bounded title, sanitized once
SanitizeInit ==
    /\ SessionInit
    /\ LoginIdle
    /\ WatchIdle
    /\ ResolveIdle
    /\ ExtractIdle
    /\ ThreadsIdle
    /\ sn_name \in Titles
    /\ sn_pc = "input"
    /\ sn_out = <<>>
    /\ sn_folder = NoFolder

\* every bounded opportunity page, harvested once
ExtractInit ==
    /\ SessionInit
    /\ LoginIdle
    /\ WatchIdle
    /\ ResolveIdle
    /\ SanitizeIdle
    /\ ThreadsIdle
    /\ ex_page \in ExtractPages
    /\ ex_pc = "input"
    /\ ex_result = NoExtract

\* two requests for two opportunities arrive together
ThreadsInit ==
    /\ SessionInit
    /\ LoginIdle
    /\ WatchIdle
    /\ ResolveIdle
    /\ SanitizeIdle
    /\ ExtractIdle
    /\ th_pc = [t \in Threads |-> "start"]
    /\ disk = <<>>
    /\ th_before = [t \in Threads |-> {}]
    /\ th_main_pdf = [t \in Threads |-> NoFile]
    /\ th_attachments = [t \in Threads |-> {}]
    /\ th_polls = [t \in Threads |-> 0]

\* sam_start on the page drawn
RunOnPage(dir, env) ==
    /\ lastOp.op = "none"
    /\ Run(dir, env, page)

RunNext == \E dir \in Dirs, env \in EnvsNow : RunOnPage(dir, env)

Init ==
    /\ SessionInit /\ LoginIdle /\ WatchIdle /\ ResolveIdle /\ SanitizeIdle /\ ExtractIdle
    /\ ThreadsIdle

Next ==
    \/ \E dir \in Dirs, env \in EnvsNow : Acquire(dir, env)
    \/ \E dir \in Dirs, env \in EnvsNow :
          \E pg \in (IF env.create = "fail" \/ ~env.navOk THEN {GoodPage} ELSE RunPages) :
             Run(dir, env, pg)
    \/ Cleanup
    \/ \E t \in Times : Advance(t)
    \/ \E p \in Pids : BrowserHangs(p)
    \/ \E p \in Pids : BrowserDies(p)

vars == <<sessionVars, loginVars, watchVars, resolveVars, sanitizeVars, extractVars,
          threadVars>>

Spec == Init /\ [][Next]_vars

\* the login gate inside one run after the other
SpecLogin == Init /\ [][LoginNext]_vars

\* the two download waits against the browser writing into the directory
SpecWatch == WatchInit /\ [][WatchNext]_vars

\* one automation run on every page
SpecRun == RunInit /\ [][RunNext]_vars

\* the resolution loop on every bounded candidate list
SpecResolve == ResolveInit /\ [][ResolveNext]_vars

\* the folder-name sanitizer on every bounded title
SpecSanitize == SanitizeInit /\ [][SanitizeNext]_vars

\* the harvest on every bounded opportunity page
SpecExtract == ExtractInit /\ [][ExtractNext]_vars

\* two concurrent runs on the shared browser
SpecThreads == ThreadsInit /\ [][ThreadsNext]_vars

\* two acquires on threads of the development server, interleaved
SpecRace == ThreadsInit /\ [][RaceNext]_vars

\* The waits of a run under the scheduling the program has: every browser
\* command returns and time.sleep returns, so the thread of the run takes its
\* next step; the browser and the user owe nothing. The login gate is
\* followed through the first run of a server at rest (the gate reads no
\* session state), the download waits from each directory.
WaitsInit == Init \/ WatchInit

WaitsNext ==
    \/ w_pc = "off" /\ lg_pc # "finished" /\ LoginNext
    \/ WatchNext

RunProceeds ==
    \/ \E raises \in BOOLEAN : LoginUrlCheck(raises)
    \/ \E d \in LoginDoms : LoginInitialCheck(d)
    \/ \E d \in LoginDoms : LoginPoll(d)
    \/ LoginLoopExit
    \/ \E pg \in RunPages : LoginRunContinues(pg)
    \/ WatchPdfStart
    \/ WatchPdfPoll
    \/ \E renameOk \in BOOLEAN : WatchPdfList(renameOk)
    \/ \E found \in BOOLEAN : WatchAttStart(found)
    \/ WatchAttPoll
    \/ WatchAttList

SpecWaits == WaitsInit /\ [][WaitsNext]_vars /\ WF_vars(RunProceeds)

\* ---------------------------------------------------------------------
\* Properties of the session
\* ---------------------------------------------------------------------
IsAcquire == lastOp.op \in {"acquire", "run"}

\* C1: an acquire against a live session that is within session_timeout of the
\* last successful acquire and within max_session_age of the session's creation
\* starts no browser process and returns the existing handle.
C1_ReuseWithinIdleTimeout ==
    (/\ IsAcquire
     /\ lastOp.driverBefore # NoDriver
     /\ lastOp.probeOk
     /\ lastOp.idle # NoTime /\ lastOp.idle < session_timeout
     /\ lastOp.age # NoTime /\ lastOp.age < max_session_age)
    => (/\ lastOp.reused
        /\ lastOp.started = NoDriver
        /\ lastOp.ret = "handle"
        /\ lastOp.driverAcquired = lastOp.driverBefore)

\* C3: under serialized callers every browser process that was started and has
\* neither been quit nor died is the one the global handle refers to, so at
\* most one is running.
C3_SingleSession ==
    /\ Running(procs) \subseteq {persistent_driver}
    /\ Cardinality(Running(procs)) <= 1

\* C7: a run that fails after its acquire succeeded neither quits the browser
\* nor clears the handle: handle and creation time are as the acquire left
\* them, and the next acquire (probe succeeding, session not expired) returns
\* that same handle.
C7_SessionPreservedOnRunFailure ==
    /\ (lastOp.op = "run" /\ lastOp.ret = "handle" /\ lastOp.run = "failed")
       => (/\ persistent_driver = lastOp.driverAcquired
           /\ persistent_driver # NoDriver
           /\ session_start_time = lastOp.startAcquired
           /\ lastOp.runQuit = NoDriver)
    /\ (/\ IsAcquire
        /\ lastOp.prevRunFailed
        /\ lastOp.probeOk
        /\ lastOp.age # NoTime
        /\ lastOp.age <= session_timeout)
       => (/\ lastOp.reused
           /\ lastOp.driverBefore # NoDriver
           /\ lastOp.driverAcquired = lastOp.driverBefore
           /\ lastOp.started = NoDriver)

C7_Witness ==
    /\ IsAcquire
    /\ lastOp.prevRunFailed
    /\ lastOp.probeOk
    /\ lastOp.reused
    /\ lastOp.age > 0

\* C8 as stated: every acquire made when more than max_session_age has elapsed
\* since the held session's creation starts a new browser session that replaces
\* the old handle.
C8_AgeExpiryStartsNew ==
    (IsAcquire /\ lastOp.driverBefore # NoDriver /\ lastOp.age > max_session_age)
    => (/\ lastOp.started # NoDriver
        /\ lastOp.started # lastOp.driverBefore
        /\ lastOp.driverAcquired = lastOp.started)

\* C8 (amended): such an acquire never reuses the old session, live or not: it
\* quits the old browser and clears the old handle, and then either the new
\* browser starts and replaces the handle, with the creation time set to the
\* time of the acquire, or the browser cannot be started, the acquire raises
\* and no handle is held.
C8_AgeExpiryNeverReuses ==
    (IsAcquire /\ lastOp.driverBefore # NoDriver /\ lastOp.age > max_session_age)
    => (/\ ~lastOp.reused
        /\ lastOp.quit = lastOp.driverBefore
        /\ lastOp.driverAcquired # lastOp.driverBefore
        /\ \/ /\ lastOp.started # NoDriver
              /\ lastOp.started # lastOp.driverBefore
              /\ lastOp.driverAcquired = lastOp.started
              /\ lastOp.startAcquired = lastOp.clockAt
           \/ /\ lastOp.started = NoDriver
              /\ lastOp.ret = "raise"
              /\ lastOp.driverAcquired = NoDriver)

C8_Witness ==
    /\ IsAcquire
    /\ lastOp.driverBefore # NoDriver
    /\ lastOp.age > max_session_age
    /\ lastOp.probeOk
    /\ lastOp.started # NoDriver
    /\ persistent_driver = lastOp.started

\* ---------------------------------------------------------------------
\* Properties of the login gate
\* ---------------------------------------------------------------------
\* C2: when the sign-in indicator is visible at the initial check and the wait
\* loop never sees the login complete within max_wait_time, _ensure_sam_login
\* fails, the error reaches the caller of the run and the run ends as a
\* failure; the session handle is still held.
C2_LoginTimeoutFailsRun ==
    /\ (lg_pc \in {"done", "finished"} /\ login_needed /\ ~login_complete)
       => lg_outcome = "raised"
    /\ (lg_pc = "finished" /\ login_needed /\ ~login_complete)
       => (~result.ok /\ persistent_driver # NoDriver)

C4_NoTempAtCompletion ==
    /\ (w_pc = "pdf_done" /\ main_pdf # NoFile) => ~w_temp_at_report
    /\ (w_pc = "att_done" /\ att_result # {}) => ~w_temp_at_report

\* C5: whenever _download_attachments_on_page returns, its result is the set
\* of non-temporary files then in the directory minus the snapshot taken
\* before the action, also when the deadline is reached while another file
\* is still temporary.
C5_ResultIsSetDifference ==
    w_pc = "att_done" => att_result = w_after \ before

\* ---------------------------------------------------------------------
\* Properties of the candidate resolution
\* ---------------------------------------------------------------------
FirstIndex(cands, P(_)) ==
    IF \E i \in 1..Len(cands) : P(cands[i])
    THEN CHOOSE i \in 1..Len(cands) : P(cands[i]) /\ \A j \in 1..(i - 1) : ~P(cands[j])
    ELSE 0

ReachedOpportunity ==
    /\ lastOp.op = "run"
    /\ lastOp.ret = "handle"
    /\ page.exc = "none" /\ page.search # "none" /\ page.links # "none"

MenuChainBroken == ~page.more \/ ~page.download \/ ~page.final

\* C10: once the opportunity page is reached, a missing step of the
\* primary-document chain (More, Download, final submit) only leaves pdf
\* absent: the attachment step is still attempted and the answer is ok; with
\* the tab, the More menu and the Download All control all missing the answer
\* is ok with pdf absent and attachments, links_info and attachments_info empty.
C10_DegradedSuccess ==
    ReachedOpportunity =>
        /\ result.ok
        /\ result.kind = "return"
        /\ \E i \in 1..Len(result.steps) : result.steps[i] = "primary"
        /\ \E i \in 1..Len(result.steps) :
              /\ result.steps[i] = "attachments"
              /\ \E j \in 1..(i - 1) : result.steps[j] = "primary"
        /\ MenuChainBroken => result.pdf = "none"
        /\ (~page.tab /\ ~page.more /\ ~page.dlAll /\ ~page.menuDlAll)
           => (/\ result.pdf = "none"
               /\ result.attachments = {}
               /\ result.links_info = <<>>
               /\ result.attachments_info = <<>>)

\* the page has links and files, yet no tab, no More menu and no Download All
C10_Witness ==
    /\ ReachedOpportunity
    /\ ~page.tab /\ ~page.more /\ ~page.dlAll /\ ~page.menuDlAll
    /\ page.foundLinks # <<>>
    /\ page.attWait # {}
    /\ result.ok
    /\ result.pdf = "none"

\* ---------------------------------------------------------------------
\* Properties of the cleanup
\* ---------------------------------------------------------------------
\* C11 as stated: after _cleanup_persistent_session, called once or twice in
\* a row, with or without a handle, no handle is held and no creation time is
\* recorded, and no error was raised, also when quit() raised.
C11_CleanupLeavesNoSession ==
    lastOp.op = "cleanup"
    => (/\ lastOp.ret = "none"
        /\ persistent_driver = NoDriver
        /\ session_start_time = NoTime)

\* C11 (amended): _cleanup_persistent_session never raises and leaves no
\* handle held; when a handle was held it has called quit() on that browser
\* and cleared handle and creation time, also when quit() raised; when no
\* handle is held (in particular on a second call in a row) it changes
\* nothing: the creation time stays as it was, absent after a cleanup, the
\* old one after a browser start that failed.
C11_CleanupIdempotent ==
    /\ [](lastOp.op = "cleanup"
          => (/\ lastOp.ret = "none"
              /\ persistent_driver = NoDriver
              /\ lastOp.driverBefore # NoDriver
                 => (/\ session_start_time = NoTime
                     /\ lastOp.quit = lastOp.driverBefore
                     /\ procs[lastOp.driverBefore] = "dead")
              /\ lastOp.driverBefore = NoDriver
                 => (/\ lastOp.quit = NoDriver
                     /\ session_start_time =
                           IF lastOp.age = NoTime THEN NoTime
                           ELSE lastOp.clockAt - lastOp.age)))
    /\ [][(Cleanup /\ persistent_driver = NoDriver)
          => UNCHANGED <<persistent_driver, session_start_time, procs,
                         download_path, last_activity>>]_vars

\* quit() raised on a browser that no longer answers, and the handle is cleared
C11_Witness ==
    /\ lastOp.op = "cleanup"
    /\ lastOp.driverBefore # NoDriver
    /\ lastOp.quitRaised
    /\ persistent_driver = NoDriver
    /\ session_start_time = NoTime

\* ---------------------------------------------------------------------
\* Properties of the folder name
\* ---------------------------------------------------------------------
SeparatorChars == ForbiddenChars \cup WhitespaceChars

\* the title read in one pass: the characters that are no separators, with one
\* space for each run of separators that stands between two of them
Collapsed(s) ==
    LET last == IF \E i \in 1..Len(s) : s[i] \notin SeparatorChars
                THEN CHOOSE i \in 1..Len(s) :
                        s[i] \notin SeparatorChars /\ \A j \in (i + 1)..Len(s) : s[j] \in SeparatorChars
                ELSE 0
        marked == [i \in 1..Len(s) |->
                     IF s[i] \notin SeparatorChars THEN s[i]
                     ELSE IF i > 1 /\ i < last /\ s[i - 1] \notin SeparatorChars THEN " " ELSE ""]
    IN  SelectSeq(marked, LAMBDA c : c # "")

\* C12: for every title _sanitize_folder_name returns at most 120 characters,
\* none of them one of \ / : * ? " < > |, with a single space where the title
\* had a run of those characters or of whitespace between two other
\* characters; a title that is empty or made of whitespace and forbidden
\* characters only gives "Untitled"; "A/B: Report?" gives "A B Report".
C12_SanitizedFolderName ==
    sn_pc = "returned" =>
        /\ Len(sn_out) <= 120
        /\ \A i \in 1..Len(sn_out) : sn_out[i] \notin ForbiddenChars
        /\ \A i \in 1..Len(sn_out) : sn_out[i] \in WhitespaceChars => sn_out[i] = " "
        /\ \A i \in 1..(Len(sn_out) - 1) : ~(sn_out[i] = " " /\ sn_out[i + 1] = " ")
        /\ (\A i \in 1..Len(sn_name) : sn_name[i] \in SeparatorChars) <=> (sn_out = Untitled)
        /\ LET c == Collapsed(sn_name)
           IN  c # <<>> => sn_out = SubSeq(c, 1, IF Len(c) < 120 THEN Len(c) ELSE 120)
        /\ sn_name = <<"A", "/", "B", ":", " ", "R", "e", "p", "o", "r", "t", "?">>
           => sn_out = <<"A", " ", "B", " ", "R", "e", "p", "o", "r", "t">>

\* a title of more than 120 characters with forbidden characters and whitespace
\* in it, cut to 120
C12_Witness ==
    /\ sn_pc = "returned"
    /\ Len(sn_name) > 120
    /\ Len(sn_out) = 120
    /\ \E i \in 1..Len(sn_name) : sn_name[i] \in ForbiddenChars
    /\ \E i \in 1..Len(sn_name) : sn_name[i] \in WhitespaceChars
    /\ \E i \in 1..Len(sn_out) : sn_out[i] = " "

\* ---------------------------------------------------------------------
\* Properties of the harvest
\* ---------------------------------------------------------------------
\* C13: whatever the page shows and whichever lookups, attribute reads or the
\* tab click raise, _extract_links_and_attachments_info returns its
\* {links, attachments} value and raises nothing; when no tab candidate
\* matches, both lists are empty.
C13_ExtractionNeverFails ==
    ex_pc = "returned" =>
        /\ ~ex_result.raised
        /\ \A i \in 1..Len(ex_result.links) : ex_result.links[i].url \in Hrefs
        /\ \A i \in 1..Len(ex_result.attachments) :
              ex_result.attachments[i].filename # ""
        /\ (\A i \in 1..Len(ex_page.tabCands) : ~HasMatch(ex_page.tabCands[i]))
           => (ex_result.links = <<>> /\ ex_result.attachments = <<>>)

\* the tab is found and the click on it raises
C13_Witness ==
    /\ ex_pc = "returned"
    /\ \E i \in 1..Len(ex_page.tabCands) : HasMatch(ex_page.tabCands[i])
    /\ ex_page.clickRaises
    /\ \E i \in 1..Len(ex_page.links) : ex_page.links[i].raises
    /\ ~ex_result.raised

\* ---------------------------------------------------------------------
\* Properties of the download deadlines
\* ---------------------------------------------------------------------
\* C14: no download wait ends with an exception. The PDF wait ends without a
\* PDF only when timeout_secs have passed, main_pdf is then absent and the
\* attachment step can start; the attachment wait that reaches its deadline
\* with no new non-temporary file in the directory returns the empty list,
\* and it returns the empty list after a click only at the deadline.
C14_TimeoutIsNotAnError ==
    /\ w_pc # "raised"
    /\ (w_pc = "pdf_loop" /\ w_elapsed >= timeout_secs)
       => (main_pdf = NoFile /\ ENABLED WatchPdfPoll)
    /\ (w_pc = "pdf_done" /\ main_pdf = NoFile)
       => (w_elapsed >= timeout_secs /\ ENABLED WatchAttStart(TRUE))
    /\ (w_pc = "att_done" /\ dl_all /\ w_elapsed >= att_deadline /\ w_after \ before = {})
       => att_result = {}
    /\ (w_pc = "att_done" /\ dl_all /\ att_result = {})
       => w_elapsed >= att_deadline

\* a temporary file stays in the directory for the whole PDF wait
C14_Witness ==
    /\ w_pc = "pdf_done"
    /\ main_pdf = NoFile
    /\ w_elapsed >= timeout_secs
    /\ has_temp_download(fs)

\* C15: _download_attachments_on_page returns normally only when it found a
\* Download All control, directly or through the More menu (without one it
\* fails with an error instead of returning a list); a wait that times out
\* with no new file returns the empty list.
C15_MissingControlIsHardFailure ==
    /\ w_pc = "att_done" => dl_all
    /\ (w_pc = "att_done" /\ dl_all /\ w_elapsed >= att_deadline /\ w_after \ before = {})
       => att_result = {}

\* ---------------------------------------------------------------------
\* Properties of the answer on a navigation failure
\* ---------------------------------------------------------------------
\* the run passed the login gate and found no search input, by the CSS
\* selectors or by the scan of all inputs
NoSearchInput ==
    /\ lastOp.op = "run" /\ lastOp.ret = "handle"
    /\ page.exc # "login"
    /\ page.search = "none"

\* the run submitted the search and found no opportunity link by either pattern
NoOpportunityLink ==
    /\ lastOp.op = "run" /\ lastOp.ret = "handle"
    /\ page.exc \notin {"login", "search"}
    /\ page.search # "none"
    /\ page.links = "none"

\* C16: when no search input resolves, or no opportunity link is found, the
\* run raises, no later step is executed, and sam_start answers ok = false
\* with the error text as message and the opportunity folder.
C16_NavigationFailureIsStructured ==
    /\ NoSearchInput
       => (/\ ~result.ok
           /\ result.kind = "raise"
           /\ result.message = "Could not find search input on SAM.gov"
           /\ result.steps[Len(result.steps)] = "search")
    /\ NoOpportunityLink
       => (/\ ~result.ok
           /\ result.kind = "raise"
           /\ result.message = "No opportunity links found in search results"
           /\ result.steps[Len(result.steps)] = "open")
    /\ (NoSearchInput \/ NoOpportunityLink)
       => (/\ result.folder # "none"
           /\ result.folder = download_path
           /\ result.pdf = "none"
           /\ result.attachments = {})

\* the scan of all inputs found the search box, and the results had no link
C16_Witness ==
    /\ NoOpportunityLink
    /\ page.search = "scan"
    /\ ~result.ok
    /\ result.folder = "dirA"

\* ---------------------------------------------------------------------
\* Properties of a failed acquire
\* ---------------------------------------------------------------------
\* C17 as stated: an acquire raises only when the browser could not be started
\* by either strategy, and the slot is empty afterwards.
C17_FailsOnlyWhenBrowserCannotStart ==
    (IsAcquire /\ lastOp.ret = "raise")
    => (lastOp.started = NoDriver /\ lastOp.driverAcquired = NoDriver)

\* C17 (amended): an acquire raises when the browser cannot be started by
\* either strategy, or when the browser just started raises on its first
\* navigation to sam.gov. After a failed start no handle is held, and the
\* next acquire probes nothing and reuses nothing: it starts a browser, and
\* when the start works that browser is the session, created at the time
\* of that acquire. After a failed first navigation the browser just started
\* stays held as the session.
C17_StartFailureIsRetryable ==
    /\ (IsAcquire /\ lastOp.ret = "raise")
       => (/\ ~lastOp.reused
           /\ lastOp.driverAcquired = lastOp.started
           /\ persistent_driver = lastOp.started)
    /\ (IsAcquire /\ lastOp.prevStartFailed)
       => (/\ lastOp.driverBefore = NoDriver
           /\ ~lastOp.reused
           /\ ~lastOp.probed
           /\ lastOp.quit = NoDriver
           /\ lastOp.ret = "handle" => lastOp.started # NoDriver
           /\ lastOp.started # NoDriver
              => (/\ lastOp.driverAcquired = lastOp.started
                  /\ persistent_driver = lastOp.started
                  /\ lastOp.startAcquired = lastOp.clockAt
                  /\ session_start_time = lastOp.clockAt))

\* the browser could not be started, and the next acquire started it
C17_Witness ==
    /\ IsAcquire
    /\ lastOp.prevStartFailed
    /\ lastOp.ret = "handle"
    /\ lastOp.started # NoDriver
    /\ persistent_driver = lastOp.started

\* ---------------------------------------------------------------------
\* Properties of the order of the steps
\* ---------------------------------------------------------------------
RunOrder ==
    <<"acquire", "login", "search", "settle", "open", "settle",
      "extract", "primary", "attachments", "return">>

\* C18: the steps of one run are an initial part of the order acquire, login
\* gate, search submit, settle, open first opportunity link, settle,
\* extraction, primary-document flow, attachment flow, return, each begun
\* after the one before it ended; the run that returns made them all, and the
\* run that raised made none after the step that raised.
C18_StepsInOrder ==
    lastOp.op = "run" =>
        /\ Len(result.steps) \in 1..Len(RunOrder)
        /\ result.steps = SubSeq(RunOrder, 1, Len(result.steps))
        /\ result.ok <=> (result.steps = RunOrder)
        /\ lastOp.ret = "raise" => result.steps = <<"acquire">>
        /\ (lastOp.ret = "handle" /\ page.exc = "login") => Len(result.steps) = 2
        /\ (lastOp.ret = "handle" /\ page.exc # "login"
              /\ (page.search = "none" \/ page.exc = "search")) => Len(result.steps) = 3
        /\ (lastOp.ret = "handle" /\ page.exc = "open" /\ page.search # "none")
           => Len(result.steps) = 5
        /\ NoOpportunityLink => Len(result.steps) = 5

\* the click on the first opportunity link raised: five steps and no more
C18_Witness ==
    /\ lastOp.op = "run"
    /\ lastOp.ret = "handle"
    /\ page.exc = "open"
    /\ page.search # "none"
    /\ page.links # "none"
    /\ ~result.ok
    /\ result.steps = SubSeq(RunOrder, 1, 5)

\* ---------------------------------------------------------------------
\* Properties of two concurrent runs
\* ---------------------------------------------------------------------
\* C19: with two concurrent runs that have different folders, every file a
\* run's click made the browser write is in that run's folder, and no run
\* reports, as main_pdf or among its downloaded attachments, a file the other
\* run's click produced.
C19_ConcurrentRunsFilesystemSafe ==
    /\ \A i \in 1..Len(disk) : disk[i].dir = FolderOf(disk[i].by)
    /\ \A t \in Threads : th_main_pdf[t] # NoFile => th_main_pdf[t].by = t
    /\ \A t \in Threads : \A f \in th_attachments[t] : f.by = t

\* ---------------------------------------------------------------------
\* Properties of the activity timestamp
\* ---------------------------------------------------------------------
\* C20: after every acquire that returned a handle, by a new session or by
\* reuse, the timestamp that the timeout test of the next acquire reads
\* (_session_start_time, the only one the program keeps) is the time of that
\* acquire, the time of the last successful acquire.
C20_AcquireRefreshesLastActivity ==
    (IsAcquire /\ lastOp.ret = "handle")
    => (/\ last_activity = lastOp.clockAt
        /\ session_start_time = last_activity)

\* ---------------------------------------------------------------------
\* Properties of the teardown
\* ---------------------------------------------------------------------
\* C21: whenever an acquire does not reuse the handle it found (the probe
\* failed, or the session was past a time limit), it has called quit() on the
\* old browser before it went on to start the new one.
C21_QuitBeforeReplacement ==
    (IsAcquire /\ lastOp.driverBefore # NoDriver /\ ~lastOp.reused)
    => lastOp.quit = lastOp.driverBefore

\* ---------------------------------------------------------------------
\* Properties of the primary document's name
\* ---------------------------------------------------------------------
\* the PDF written last among those of a directory
LastPdf(f) ==
    IF \E i \in 1..Len(f) : f[i].ext = "pdf"
    THEN f[CHOOSE i \in 1..Len(f) :
               f[i].ext = "pdf" /\ \A j \in (i + 1)..Len(f) : f[j].ext # "pdf"]
    ELSE NoFile

InDir(f, x) == \E i \in 1..Len(f) : f[i] = x

\* the pass of the PDF wait that reports
PdfReportStep == w_pc = "pdf_list" /\ w_pc' = "pdf_done"

\* C22 as stated: whenever the PDF wait reports a path it is SAM_<notice_id>.pdf
\* in the download directory, the file is the most recently modified PDF the
\* directory held at that poll, and its original name is gone.
C22_ReportedPdfIsRenamed ==
    [][PdfReportStep
       => (/\ main_pdf' = File("SAM_id", "pdf")
           /\ InDir(fs', main_pdf')
           /\ LastPdf(fs') = main_pdf'
           /\ LastPdf(fs) # main_pdf' => ~InDir(fs', LastPdf(fs)))]_vars

\* C22 (amended): the file reported is the most recently modified PDF the
\* directory held at that poll. When the rename works the path reported is
\* SAM_<notice_id>.pdf, that name now denotes this file (an older file of that
\* name is replaced) and the original name is gone; when the rename raises,
\* the path reported is the original one and the directory is as it was.
C22_ReportedPdfIsNewest ==
    [][PdfReportStep
       => (/\ LastPdf(fs) # NoFile
           /\ InDir(fs', main_pdf')
           /\ LastPdf(fs') = main_pdf'
           /\ \/ /\ main_pdf' = File("SAM_id", "pdf")
                 /\ LastPdf(fs) # main_pdf' => ~InDir(fs', LastPdf(fs))
                 /\ Len(SelectSeq(fs', LAMBDA x : x = main_pdf')) = 1
              \/ /\ main_pdf' = LastPdf(fs)
                 /\ fs' = fs)]_vars

\* the download of this run was renamed while an older PDF stays beside it
C22_Witness ==
    /\ w_pc = "pdf_done"
    /\ main_pdf = File("SAM_id", "pdf")
    /\ dl["d1"] = "done"
    /\ ~InDir(fs, File("d1", "pdf"))
    /\ InDir(fs, File("old", "pdf"))
    /\ LastPdf(fs) = main_pdf

RECURSIVE MatchedInOrder(_, _)
MatchedInOrder(files, k) ==
    IF k \notin DOMAIN files THEN <<>>
    ELSE (IF files[k].raises THEN <<>> ELSE files[k].els) \o MatchedInOrder(files, k + 1)

FirstAt(seq, Test(_)) ==
    CHOOSE i \in 1..Len(seq) : Test(seq[i]) /\ \A j \in 1..(i - 1) : ~Test(seq[j])

\* C24: in what _extract_links_and_attachments_info returns no two links
\* have the same url and no two attachments the same filename, and each entry
\* is the one of the first element met that carries its url or filename:
\* document order for links, selector order and then document order for
\* attachments.
C24_FirstOccurrenceWins ==
    ex_pc = "returned" =>
        LET links == ex_result.links
            atts == ex_result.attachments
            els == MatchedInOrder(ex_page.files, 1)
        IN  /\ \A i, j \in 1..Len(links) : links[i].url = links[j].url => i = j
            /\ \A i, j \in 1..Len(atts) : atts[i].filename = atts[j].filename => i = j
            /\ \A i \in 1..Len(links) :
                  LET Carries(e) == ~e.raises /\ e.href = links[i].url
                      e1 == ex_page.links[FirstAt(ex_page.links, Carries)]
                  IN  /\ \E n \in 1..Len(ex_page.links) : Carries(ex_page.links[n])
                      /\ links[i].text = IF e1.text # "" THEN e1.text ELSE e1.href
            /\ \A i \in 1..Len(atts) :
                  LET Names(e) == ~e.raises /\ e.filename = atts[i].filename
                      e1 == els[FirstAt(els, Names)]
                  IN  /\ \E n \in 1..Len(els) : Names(els[n])
                      /\ atts[i].size = IF e1.parentRaises THEN "" ELSE "12 KB"

\* the same url twice with two texts and the same file under two selectors
\* with two sizes
C24_Witness ==
    /\ ex_pc = "returned"
    /\ Len(ex_page.links) = 2
    /\ ex_page.links[1] = [raises |-> FALSE, href |-> "http://x", text |-> "more"]
    /\ ex_page.links[2] = [raises |-> FALSE, href |-> "http://x", text |-> ""]
    /\ ex_result.links = <<[url |-> "http://x", text |-> "more"]>>
    /\ \A k \in FileSelectors : ~ex_page.files[k].raises /\ Len(ex_page.files[k].els) = 1
    /\ ex_page.files[1].els[1] = [raises |-> FALSE, filename |-> "f.pdf", parentRaises |-> TRUE]
    /\ ex_page.files[2].els[1] = [raises |-> FALSE, filename |-> "f.pdf", parentRaises |-> FALSE]
    /\ ex_result.attachments = <<[filename |-> "f.pdf", size |-> ""]>>

\* ---------------------------------------------------------------------
\* Properties of the reuse branch
\* ---------------------------------------------------------------------
\* C25: an acquire that reuses the session asks the browser to download to
\* the directory of this request; when that command fails the acquire still
\* returns the same handle: the download directory stays what it was, no
\* browser is started or quit, and the handle is not cleared.
C25_RebindFailureIsNotFatal ==
    /\ []((lastOp.op = "acquire" /\ lastOp.reused)
          => /\ lastOp.ret = "handle"
             /\ persistent_driver # NoDriver
             /\ persistent_driver = lastOp.driverBefore
             /\ lastOp.started = NoDriver
             /\ lastOp.quit = NoDriver)
    /\ [][\A t \in Threads : \A env \in EnvsNow :
            (WillReuse /\ ThreadAcquires(t, env))
            => /\ lastOp'.reused
               /\ procs' = procs
               /\ session_start_time' = session_start_time
               /\ download_path' = IF env.rebindOk THEN FolderOf(t) ELSE download_path]_vars

\* the second request reused the session and the browser still downloads to
\* the folder of the first
C25_Witness ==
    /\ lastOp.op = "acquire"
    /\ lastOp.reused
    /\ lastOp.asked = FolderOf(2)
    /\ download_path = FolderOf(1)
    /\ persistent_driver = lastOp.driverBefore

\* ---------------------------------------------------------------------
\* Properties of the origin of the reported document
\* ---------------------------------------------------------------------
\* C26: the file the PDF wait reports is the one the final click of this run
\* made the browser write: at the pass that reports, the download of the
\* click is complete and the file picked is its file, never a PDF that was in
\* the directory before the click.
C26_ReportedPdfIsThisRunsDownload ==
    [][PdfReportStep
       => (/\ dl["d1"] = "done"
           /\ LastPdf(fs) = File("d1", FinalExt("d1")))]_vars

\* ---------------------------------------------------------------------
\* Properties of two interleaved acquires
\* ---------------------------------------------------------------------
\* C27: two acquires that interleave while no session is held never both
\* start a browser: at most one browser process is ever started, and once
\* both calls are over every process that was started and not quit is the
\* one the handle refers to.
C27_AtMostOneBrowserStarted ==
    /\ Cardinality({p \in Pids : procs[p] # "unstarted"}) <= 1
    /\ (\A t \in Threads : th_pc[t] \in {"acquired", "raised"})
       => \A p \in Running(procs) : p = persistent_driver

\* ---------------------------------------------------------------------
\* Properties of what a failed acquire leaves
\* ---------------------------------------------------------------------
\* C28 as stated: whenever an acquire raises, no handle is held afterwards
\* and no browser that the call started is still running.
C28_FailedAcquireLeavesNoSession ==
    (IsAcquire /\ lastOp.ret = "raise")
    => (/\ persistent_driver = NoDriver
        /\ lastOp.started # NoDriver => lastOp.started \notin Running(procs))

\* C28 (amended): an acquire that raises because the browser could not be
\* started has started no browser and holds no handle and no creation time
\* newer than before; an acquire that raises because the first navigation
\* raised keeps the browser it started as the session, with the time of the
\* call as creation time, so that browser is referenced by the handle for as
\* long as it runs.
C28_FailedAcquireKeepsWhatItStarted ==
    (IsAcquire /\ lastOp.ret = "raise")
    => IF lastOp.started = NoDriver
       THEN /\ persistent_driver = NoDriver
            /\ lastOp.startAcquired = (IF lastOp.age = NoTime THEN NoTime
                                       ELSE lastOp.clockAt - lastOp.age)
       ELSE /\ persistent_driver = lastOp.started
            /\ lastOp.started # lastOp.driverBefore
            /\ lastOp.startAcquired = lastOp.clockAt
            /\ procs[lastOp.started] # "unstarted"

\* the first navigation raised and the browser just started runs on, held
C28_Witness ==
    /\ lastOp.op = "acquire"
    /\ lastOp.ret = "raise"
    /\ lastOp.started # NoDriver
    /\ lastOp.started \in Running(procs)
    /\ persistent_driver = lastOp.started
    /\ session_start_time = lastOp.clockAt

\* ---------------------------------------------------------------------
\* Properties of the contract folder
\* ---------------------------------------------------------------------
\* C29: the folder _create_contract_folder makes and returns is a direct
\* child of CONTRACTS_BASE: the sanitized name is never "." or "..", and the
\* directory is neither the base itself nor outside it.
C29_FolderIsDirectChildOfBase ==
    sn_pc = "created" =>
        /\ sn_out \notin {<<".">>, <<".", ".">>}
        /\ Len(sn_folder.dir) = Len(CONTRACTS_BASE) + 1
        /\ SubSeq(sn_folder.dir, 1, Len(CONTRACTS_BASE)) = CONTRACTS_BASE

\* ---------------------------------------------------------------------
\* Properties of sanitizing twice
\* ---------------------------------------------------------------------
\* C30: what _sanitize_folder_name returns is a fixed point of it and has no
\* whitespace at either end, for every title, those of more than 120
\* characters whose 120th sanitized character is a space included.
C30_SanitizeIdempotentAndTrimmed ==
    sn_pc = "returned" =>
        /\ sanitize_folder_name(sn_out) = sn_out
        /\ Strip(sn_out) = sn_out
====
